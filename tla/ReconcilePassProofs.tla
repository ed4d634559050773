------------------------- MODULE ReconcilePassProofs -------------------------
(***************************************************************************)
(* Proofs about ReconcilePass, for any bots, pairs, timeframes, exchanges  *)
(* and markets.                                                            *)
(***************************************************************************)
EXTENDS ReconcilePass, EvaluationProofs

(* The inductive invariant.                                                *)

(* What the scanner answered is what the market says, or nothing.          *)
AnswersMarket ==
    \A e \in Exchanges : answer[e] # Unanswered =>
        \A tf \in Timeframes, p \in Pairs : answer[e][tf][p] \in {Missing, market[e][tf][p]}

(* The pass decides only about bots it has read, with every exchange       *)
(* answered, and asks a bot only once; the copy it decides from has the    *)
(* settings that were scanned.                                             *)
PassShape ==
    /\ \A i \in 1..Len(order) : snap[order[i]].state = "read"
    /\ \A b \in Bots : snap[b].state # "unread" => b \notin waiting
    /\ stage = "idle" => \A b \in Bots : snap[b] = Unread
    /\ stage \in {"decide", "commit"} => \A e \in Exchanges : answer[e] # Unanswered
    /\ stage = "commit" =>
          /\ order # <<>>
          /\ copy.timeframe = snap[Head(order)].timeframe
          /\ copy.exchange = snap[Head(order)].exchange

PassInv == TypeOK /\ AnswersMarket /\ PassShape

(* Every timeframe in use has a column.                                    *)
LEMMA ColumnFacts ==
    ASSUME PassInv, NEW e \in Exchanges, NEW b \in Guarded(e)
    PROVE  \E i \in DOMAIN Columns(e) : Columns(e)[i] = snap[b].timeframe
  <1> DEFINE S == {snap[x].timeframe : x \in Guarded(e)}
             n == Cardinality(S)
             Good(f) == f \in [1..n -> S] /\ IsInjective(f)
  <1>1. IsFiniteSet(S)
    <2>1. \A x \in Guarded(e) : x \in Bots /\ snap[x] \in Snaps /\ snap[x].state = "read"
      BY DEF Guarded, ToSet, PassInv, TypeOK, PassShape
    <2>2. S \subseteq Timeframes
      BY <2>1 DEF Snaps, Unread
    <2>3. QED
      BY <2>2, FS_Subset, PassAssumption
  <1> HIDE DEF S
  <1>2. n \in Nat /\ ExistsBijection(1..n, S)
    BY <1>1, FS_CardinalityType
  <1>3. \E f : Good(f)
    BY <1>2 DEF ExistsBijection, Bijection, Injection
  <1>4. Good(SetToSeq(S))
    BY <1>3 DEF SetToSeq
  <1>5. IsFiniteSet(1..n) /\ Cardinality(1..n) = n
    BY <1>2, FS_Interval
  <1>6. SetToSeq(S) \in Injection(1..n, S)
    BY <1>4 DEF Injection
  <1>7. SetToSeq(S) \in Surjection(1..n, S)
    BY <1>1, <1>5, <1>6, FS_Injection
  <1>8. snap[b].timeframe \in S
    BY DEF S
  <1>9. Columns(e) = SetToSeq(S)
    BY DEF Columns, S
  <1>10. QED
    BY <1>4, <1>7, <1>8, <1>9 DEF Surjection

(* The ratings read from the scanner's response are those of the market.   *)
LEMMA RatingsFacts ==
    ASSUME PassInv, NEW e \in Exchanges
    PROVE  /\ Ratings(e) \in Tables
           /\ \A tf \in Timeframes, p \in Pairs :
                 Ratings(e)[tf][p] \in {Missing, market[e][tf][p]}
  <1>1. ASSUME NEW tf \in Timeframes, NEW p \in Pairs, p \in AskedPairs(e, tf)
        PROVE  Response(e, p)[CHOOSE i \in DOMAIN Columns(e) : Columns(e)[i] = tf]
                 = market[e][tf][p]
    <2>1. PICK b \in Guarded(e) : snap[b].timeframe = tf
      BY <1>1 DEF AskedPairs
    <2>2. \E i \in DOMAIN Columns(e) : Columns(e)[i] = tf
      BY <2>1, ColumnFacts
    <2>3. QED
      BY <2>2 DEF Response
  <1>2. \A tf \in Timeframes, p \in Pairs : Ratings(e)[tf][p] \in {Missing, market[e][tf][p]}
    BY <1>1 DEF Ratings, Checked
  <1>3. \A tf \in Timeframes, p \in Pairs : Ratings(e)[tf][p] \in -10..10 \cup {Missing}
    BY DEF Ratings, Checked
  <1>4. Ratings(e) = [tf \in Timeframes |-> [p \in Pairs |-> Ratings(e)[tf][p]]]
    BY DEF Ratings
  <1>5. QED
    BY <1>2, <1>3, <1>4 DEF Tables

-----------------------------------------------------------------------------
(* The invariant is inductive.                                             *)

(* The row that stands for no bot has the type of a row.                   *)
LEMMA NoRowType == NoRow \in Rows
  BY PassAssumption DEF NoRow, Rows, Default

(* The invariant holds before the first pass.                              *)
LEMMA PassInit == Init => PassInv
  <1> SUFFICES ASSUME Init PROVE PassInv
    OBVIOUS
  <1>1. TypeOK
    BY NoRowType DEF Init, TypeOK, Snaps
  <1>2. AnswersMarket /\ PassShape
    BY DEF Init, AnswersMarket, PassShape, Unread
  <1>3. QED
    BY <1>1, <1>2 DEF PassInv

(* The end of a pass, or its being abandoned.                              *)
LEMMA ForgetStep ==
    ASSUME PassInv, Forget, stage' = "idle", UNCHANGED <<row, gone, market, sealed, copy>>
    PROVE  PassInv'
  BY DEF PassInv, Forget, TypeOK, AnswersMarket, PassShape, Snaps, Unread

(* A bot that answers, or cannot be reached, keeps the invariant.          *)
LEMMA TellStep ==
    ASSUME PassInv, NEW b \in Bots, NEW pairs \in SUBSET Pairs, TellsPairs(b, pairs)
    PROVE  PassInv'
  <1>1. snap[b] \in Snaps /\ snap[b] # Unread /\ snap[b].state = "asked" /\ stage # "idle"
    BY DEF PassInv, TypeOK, PassShape, TellsPairs, Asking, Unread
  <1>2. snap'[b] \in Snaps /\ snap'[b].state = "read" /\ \A x \in Bots \ {b} : snap'[x] = snap[x]
    BY <1>1 DEF PassInv, TypeOK, TellsPairs, Snaps, Unread
  <1>3. snap' \in [Bots -> Snaps]
    BY <1>2 DEF PassInv, TypeOK, TellsPairs
  <1>4. order \in Seq(Bots) /\ order' = Append(order, b)
    BY DEF PassInv, TypeOK, TellsPairs
  <1>5. order' \in Seq(Bots) /\ \A i \in 1..Len(order') : snap'[order'[i]].state = "read"
    BY <1>2, <1>4 DEF PassInv, PassShape
  <1>6. TypeOK'
    BY <1>3, <1>5 DEF PassInv, TypeOK, TellsPairs
  <1>7. AnswersMarket'
    BY DEF PassInv, AnswersMarket, TellsPairs
  <1>8. ASSUME order # <<>>
        PROVE  Head(order') = Head(order) /\ snap'[Head(order)] = snap[Head(order)]
    <2>1. Head(order) = order[1] /\ 1 \in 1..Len(order) /\ Head(order) \in Bots
      BY <1>4, <1>8
    <2>2. Head(order') = Head(order)
      BY <1>4, <1>8
    <2>3. Head(order) # b
      BY <1>1, <2>1 DEF PassInv, PassShape
    <2>4. QED
      BY <1>2, <2>1, <2>2, <2>3
  <1>9. order' # <<>>
    BY <1>4
  <1>10. PassShape'
    BY <1>1, <1>2, <1>5, <1>8, <1>9 DEF PassInv, PassShape, TellsPairs, Unread
  <1>11. QED
    BY <1>6, <1>7, <1>10 DEF PassInv

(* Asking a bot, or giving up the pass over it, keeps the invariant.       *)
LEMMA AskStep ==
    ASSUME PassInv, NEW b \in Bots, Ask(b)
    PROVE  PassInv'
  <1>1. snap'[b].state = "asked" /\ snap' \in [Bots -> Snaps]
        /\ \A x \in Bots \ {b} : snap'[x] = snap[x]
    BY DEF PassInv, TypeOK, Ask, Snaps, Rows
  <1>2. snap[b].state = "unread" \/ b \notin waiting
    BY DEF PassInv, PassShape
  <1>3. \A i \in 1..Len(order) : order[i] # b /\ order[i] \in Bots
    BY <1>2 DEF PassInv, PassShape, TypeOK, Ask
  <1>4. TypeOK' /\ AnswersMarket'
    BY <1>1 DEF PassInv, TypeOK, AnswersMarket, Ask
  <1>5. PassShape'
    BY <1>1, <1>3 DEF PassInv, PassShape, Ask
  <1>6. QED
    BY <1>4, <1>5 DEF PassInv

(* The scanner's answer, or its failure, keeps the invariant.              *)
LEMMA FetchStep ==
    ASSUME PassInv, NEW e \in Exchanges, Fetch(e) \/ FetchFails(e)
    PROVE  PassInv'
  <1> DEFINE table == answer'[e]
  <1>1. NotAsked \in Tables /\ \A tf \in Timeframes, p \in Pairs : NotAsked[tf][p] = Missing
    BY DEF NotAsked, Tables
  <1>2. /\ table \in Tables
        /\ \A tf \in Timeframes, p \in Pairs : table[tf][p] \in {Missing, market[e][tf][p]}
        /\ \A x \in Exchanges \ {e} : answer'[x] = answer[x]
        /\ answer' = [answer EXCEPT ![e] = table]
    BY <1>1, RatingsFacts DEF PassInv, TypeOK, Fetch, FetchFails
  <1> HIDE DEF table
  <1>3. TypeOK'
    BY <1>2 DEF PassInv, TypeOK, Fetch, FetchFails
  <1>4. AnswersMarket'
    BY <1>2 DEF PassInv, TypeOK, AnswersMarket, Fetch, FetchFails, table
  <1>5. PassShape'
    BY DEF PassInv, PassShape, Fetch, FetchFails
  <1>6. QED
    BY <1>3, <1>4, <1>5 DEF PassInv

(* What is left of the order after its head.                               *)
LEMMA TailFacts ==
    ASSUME PassInv, order # <<>>
    PROVE  /\ Head(order) \in Bots /\ Head(order) = order[1] /\ 1 \in 1..Len(order)
           /\ Tail(order) \in Seq(Bots)
           /\ \A i \in 1..Len(Tail(order)) :
                 Tail(order)[i] = order[i + 1] /\ i + 1 \in 1..Len(order)
  BY DEF PassInv, TypeOK

(* Reading and comparing a bot's row keeps the invariant.                  *)
LEMMA CheckStep ==
    ASSUME PassInv, Check
    PROVE  PassInv'
  <1>1. order # <<>>
    BY DEF Check
  <1>2. copy' \in Rows /\ order' \in Seq(Bots) /\ stage' \in {"decide", "commit"}
    BY <1>1, TailFacts DEF PassInv, TypeOK, Check
  <1>3. TypeOK' /\ AnswersMarket'
    BY <1>2 DEF PassInv, TypeOK, AnswersMarket, Check
  <1>4. PassShape'
    <2>1. CASE stage' = "commit"
      BY <1>1, <2>1 DEF PassInv, PassShape, Check, Current
    <2>2. CASE order' = Tail(order) /\ stage' = "decide"
      BY <1>1, <2>2, TailFacts DEF PassInv, PassShape, Check
    <2>3. QED
      BY <2>1, <2>2 DEF Check
  <1>5. QED
    BY <1>3, <1>4 DEF PassInv

(* Deciding about a bot keeps the invariant.                               *)
LEMMA DecideStep ==
    ASSUME PassInv, Decide
    PROVE  PassInv'
  <1>1. order # <<>>
    BY DEF Decide, PassInv, PassShape
  <1>2. copy.paused \in BOOLEAN /\ \A reason : Decided(copy.paused, reason) \in BOOLEAN
    BY DEF Decided, PassInv, TypeOK, Rows
  <1>3. row' \in [Bots -> Rows]
    BY <1>1, <1>2, TailFacts DEF PassInv, TypeOK, Decide, Rows
  <1>4. TypeOK' /\ AnswersMarket'
    BY <1>1, <1>3, TailFacts, NoRowType DEF PassInv, TypeOK, AnswersMarket, Decide
  <1>5. PassShape'
    BY <1>1, TailFacts DEF PassInv, PassShape, Decide
  <1>6. QED
    BY <1>4, <1>5 DEF PassInv

(* The bots change under the pass.                                         *)
LEMMA ChangeStep ==
    ASSUME PassInv, NEW b \in Bots,
           SettingsChange(b) \/ ExchangeChange(b) \/ Delete(b) \/ Provision(b)
    PROVE  PassInv'
  <1>1. UNCHANGED <<market, stage, waiting, snap, order, copy, answer>>
    BY DEF SettingsChange, ExchangeChange, Delete, Provision, Unchanging
  <1>2. Default(Timeframes) \in Timeframes /\ Default(Exchanges) \in Exchanges
    BY PassAssumption DEF Default
  <1>3. row' \in [Bots -> Rows]
    <2> USE DEF PassInv, TypeOK, Rows
    <2>1. CASE SettingsChange(b)
      <3>1. \A r \in Rows, guard \in BOOLEAN, tf \in Timeframes : Configured(r, guard, tf) \in Rows
        BY DEF Configured
      <3>2. QED
        BY <2>1, <3>1 DEF SettingsChange
    <2>2. CASE ExchangeChange(b)
      BY <2>2 DEF ExchangeChange
    <2>3. CASE Delete(b)
      <3>1. NoRow \in Rows
        BY <1>2 DEF NoRow
      <3>2. QED
        BY <2>3, <3>1 DEF Delete
    <2>4. CASE Provision(b)
      <3>1. \A e \in Exchanges : Fresh(e) \in Rows
        BY <1>2 DEF Fresh
      <3>2. QED
        BY <2>4, <3>1 DEF Provision
    <2>5. QED
      BY <2>1, <2>2, <2>3, <2>4
  <1>4. gone' \subseteq Bots /\ sealed' \subseteq Bots
    BY DEF SettingsChange, ExchangeChange, Delete, Provision, Unchanging, PassInv,
           TypeOK
  <1>5. TypeOK'
    BY <1>1, <1>3, <1>4 DEF PassInv, TypeOK
  <1>6. AnswersMarket' /\ PassShape'
    BY <1>1 DEF PassInv, AnswersMarket, PassShape
  <1>7. QED
    BY <1>5, <1>6 DEF PassInv

(* Every step keeps the invariant.                                         *)
LEMMA PassStep == PassInv /\ [Next]_vars => PassInv'
  <1> SUFFICES ASSUME PassInv, [Next]_vars PROVE PassInv'
    OBVIOUS
  <1>1. ASSUME NEW halted, Begin(halted) PROVE PassInv'
    BY <1>1 DEF Begin, PassInv, TypeOK, AnswersMarket, PassShape, Unread
  <1>2. ASSUME Collected \/ Fetched PROVE PassInv'
    BY <1>2 DEF Collected, Fetched, PassInv, TypeOK, AnswersMarket, PassShape
  <1>3. ASSUME Finish \/ \E b \in Bots : Abort(b) PROVE PassInv'
    BY <1>3, ForgetStep DEF Finish, Abort
  <1>4. ASSUME NEW b \in Bots, Told(b) \/ ToldNothing(b) PROVE PassInv'
    <2>1. Whitelists[b] \subseteq SUBSET Pairs
      BY PassAssumption
    <2>2. QED
      BY <1>4, <2>1, TellStep DEF Told, ToldNothing
  <1>5. CASE UNCHANGED vars
    BY <1>5 DEF vars, PassInv, TypeOK, AnswersMarket, PassShape
  <1>6. QED
    BY <1>1, <1>2, <1>3, <1>4, <1>5, AskStep, FetchStep, CheckStep, DecideStep, ChangeStep
       DEF Next, Work, Disturbance, Start, StartWithout

(* The passes keep the types, ask each bot once, and never hold a rating   *)
(* that the market does not give for that exchange and that timeframe.     *)
THEOREM PassInvHolds == Spec => []PassInv
  <1>1. QED
    BY PassInit, PassStep, PTL DEF Spec

(* The variables of a pass have their types.                               *)
THEOREM PassTypes == Spec => []TypeOK
  <1>1. PassInv => TypeOK
    BY DEF PassInv
  <1>2. QED
    BY <1>1, PassInvHolds, PTL

(* A decision rests on the bot's own pairs, rated on its own exchange and  *)
(* in its own timeframe.                                                   *)
LEMMA OwnVerdict ==
    ASSUME PassInv, Decide, NEW b \in Bots
    PROVE  /\ row'[b].paused /\ ~row[b].paused => AllSelling(copy, snap[b].pairs)
           /\ ~row'[b].paused /\ row[b].paused => MostBuying(copy, snap[b].pairs)
  <1> SUFFICES ASSUME row'[b].paused # row[b].paused
               PROVE  /\ row'[b].paused => AllSelling(copy, snap[b].pairs)
                      /\ ~row'[b].paused => MostBuying(copy, snap[b].pairs)
    BY DEF PassInv, TypeOK, Rows
  <1> DEFINE pairs == snap[b].pairs
             value == answer[snap[b].exchange][snap[b].timeframe]
  <1>1. /\ b = Head(order) /\ stage = "commit" /\ order # <<>>
        /\ row'[b].paused = Decided(copy.paused, Verdict(pairs, value))
        /\ row'[b].paused # copy.paused
        /\ copy.paused \in BOOLEAN
    BY DEF Decide, PassInv, PassShape, TypeOK, Rows, Reason
  <1>2. snap[b].state = "read" /\ answer[snap[b].exchange] # Unanswered
    <2>1. snap[b].state = "read"
      BY <1>1, TailFacts DEF PassInv, PassShape
    <2>2. QED
      BY <1>1, <2>1 DEF PassInv, TypeOK, PassShape, Snaps, Unread
  <1>3. /\ pairs \in SUBSET Pairs /\ IsFiniteSet(pairs)
        /\ snap[b].exchange = copy.exchange /\ snap[b].timeframe = copy.timeframe
        /\ copy.exchange \in Exchanges /\ copy.timeframe \in Timeframes
    <2>1. pairs \in SUBSET Pairs
      BY <1>2 DEF PassInv, TypeOK, Snaps, Unread
    <2>2. QED
      BY <1>1, <2>1, FS_Subset, PassAssumption DEF PassInv, PassShape, TypeOK, Rows
  <1>4. \A p \in pairs : value[p] \in {Missing, Quote(copy, p)}
    BY <1>2, <1>3 DEF PassInv, AnswersMarket, Quote
  <1>5. Quoted(pairs, value) /\ \A p \in pairs : value[p] \in -10..10 \cup {Missing}
    <2>1. answer[copy.exchange] \in Tables
      BY <1>2, <1>3 DEF PassInv, TypeOK
    <2>2. \A p \in pairs : value[p] \in -10..10 \cup {Missing}
      BY <1>3, <2>1 DEF Tables
    <2>3. QED
      BY <2>2 DEF Quoted
  <1> HIDE DEF pairs, value
  <1>6. CASE row'[b].paused
    <2>1. Verdict(pairs, value) = "all_sell"
      BY <1>1, <1>6 DEF Decided
    <2>2. pairs # {} /\ \A p \in pairs : value[p] # Missing /\ value[p] <= -1
      BY <1>3, <1>5, <2>1, PausesWhenAllSell
    <2>3. AllSelling(copy, pairs)
      BY <1>4, <1>5, <2>2 DEF AllSelling
    <2>4. QED
      BY <1>6, <2>3 DEF pairs
  <1>7. CASE ~row'[b].paused
    <2>1. Verdict(pairs, value) = "majority_buy"
      BY <1>1, <1>7 DEF Decided
    <2>2. /\ \A p \in pairs : value[p] # Missing
          /\ 2 * Cardinality({p \in pairs : value[p] # Missing /\ value[p] >= 1})
               > Cardinality(pairs)
      BY <1>3, <1>5, <2>1, ReleasesWhenMostBuy
    <2>3. \A p \in pairs : value[p] = Quote(copy, p) /\ value[p] \in -10..10
      BY <1>4, <1>5, <2>2
    <2>4. {p \in pairs : value[p] # Missing /\ value[p] >= 1} = {p \in pairs : Quote(copy, p) \in 1..10}
      BY <2>2, <2>3
    <2>5. MostBuying(copy, pairs)
      BY <2>2, <2>3, <2>4 DEF MostBuying
    <2>6. QED
      BY <1>7, <2>5 DEF pairs
  <1>8. QED
    BY <1>6, <1>7

(* For any number of bots, pairs, timeframes and exchanges, a pass moves   *)
(* a bot's decision only as the market says of that bot's own pairs.       *)
THEOREM VerdictIsOwnHolds == Spec => VerdictIsOwn
  <1>1. PassInv /\ [Next]_vars =>
          [Decide => \A b \in Bots :
             /\ row'[b].paused /\ ~row[b].paused => AllSelling(copy, snap[b].pairs)
             /\ ~row'[b].paused /\ row[b].paused => MostBuying(copy, snap[b].pairs)]_vars
    BY OwnVerdict
  <1>2. QED
    BY <1>1, PassInvHolds, PTL DEF Spec, VerdictIsOwn

=============================================================================
