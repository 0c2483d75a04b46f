--------------------------- MODULE RSIStrategyProofs ---------------------------
(***************************************************************************)
(* Safety of the strategy thread, for every set of prices, every content   *)
(* of uninitialised memory, every period, timeframe and log_time, every    *)
(* take-profit and stop-loss, and every movement of the clock.             *)
(***************************************************************************)
EXTENDS RSIStrategy, MoneyProofs

----------------------------------------------------------------------------
(* The candles.                                                            *)

(* The members that are read, and those that are in an answer.             *)
LEMMA ReadOrderFacts ==
  /\ Len(ReadInOrder) = 7
  /\ ReadInOrder[2] = "open_price_"
  /\ \A i \in 1 .. 7 : ReadInOrder[i] = "close_price_" => i = 5
  /\ {"open_price_", "close_price_"} \subseteq Members
<1>1. /\ Len(ReadInOrder) = 7
      /\ ReadInOrder[1] = "open_time_" /\ ReadInOrder[2] = "open_price_"
      /\ ReadInOrder[3] = "high_price_" /\ ReadInOrder[4] = "low_price_"
      /\ ReadInOrder[5] = "close_price_" /\ ReadInOrder[6] = "volume_"
      /\ ReadInOrder[7] = "quote_volume_"
  BY DEF ReadInOrder
<1>2. DOMAIN ReadInOrder = 1 .. 7
  BY DEF ReadInOrder
<1> HIDE DEF ReadInOrder
<1>3. \A i \in 1 .. 7 : ReadInOrder[i] \in Members
  BY <1>2 DEF Members, ToSet
<1>4. \A i \in 1 .. 7 : i = 1 \/ i = 2 \/ i = 3 \/ i = 4 \/ i = 5 \/ i = 6 \/ i = 7
  OBVIOUS
<1>5. \A i \in 1 .. 7 : ReadInOrder[i] = "close_price_" => i = 5
  BY <1>1, <1>4
<1>6. ReadInOrder[2] \in Members /\ ReadInOrder[5] \in Members
  BY <1>3
<1> QED
  BY <1>1, <1>5, <1>6

(* A field that is read comes after those before it, in an element.        *)
LEMMA CloseAfterOpen ==
  ASSUME NEW a \in Answers, "close_price_" \in ReadFields(a)
  PROVE  "open_price_" \in ReadFields(a) /\ a.found
<1>1. a.fields \in 0 .. 7 /\ (a.found \/ a.fields = 0)
  <2>1. \/ a \in [found : {FALSE}, fields : {0}, then : {"malformed"}]
        \/ a \in [found : {TRUE}, fields : 0 .. 7 - 1, then : {"malformed", "ends"}]
        \/ a \in [found : {TRUE}, fields : {7}, then : {"complete"}]
    BY ReadOrderFacts DEF Answers
  <2>2. ASSUME NEW F, NEW G, NEW H, a \in [found : F, fields : G, then : H]
        PROVE  a.found \in F /\ a.fields \in G
    BY <2>2
  <2>3. 0 \in 0 .. 7 /\ 7 \in 0 .. 7 /\ 0 .. 7 - 1 \subseteq 0 .. 7
    OBVIOUS
  <2>4. CASE a \in [found : {FALSE}, fields : {0}, then : {"malformed"}]
    BY <2>2, <2>3, <2>4
  <2>5. CASE a \in [found : {TRUE}, fields : 0 .. 7 - 1, then : {"malformed", "ends"}]
    BY <2>2, <2>3, <2>5
  <2>6. CASE a \in [found : {TRUE}, fields : {7}, then : {"complete"}]
    BY <2>2, <2>3, <2>6
  <2> QED
    BY <2>1, <2>4, <2>5, <2>6
<1>2. PICK i \in 1 .. a.fields : ReadInOrder[i] = "close_price_"
  BY DEF ReadFields
<1>3. i = 5
  BY <1>1, <1>2, ReadOrderFacts
<1>4. 2 \in 1 .. a.fields /\ a.fields # 0
  BY <1>1, <1>2, <1>3
<1> QED
  BY <1>1, <1>4, ReadOrderFacts DEF ReadFields

Klines == GoodKlines \cup BadKlines

LEMMA MemoryIsDoubles == Memory \subseteq Doubles /\ Prices \subseteq Memory
BY StrategyAssumption DEF Memory, Doubles

(* The prices of a candle, usable or not.                                  *)
LEMMA KlinePrices ==
  ASSUME NEW k \in Klines
  PROVE  /\ k.close \in Memory /\ MinPrice(k) \in Memory
         /\ k.close \in Doubles /\ MinPrice(k) \in Doubles
<1>1. PICK a \in Answers : k \in CandlesOf(a)
  BY DEF Klines, GoodKlines, BadKlines
<1>2. k.close \in Memory /\ k.open \in Memory
  BY <1>1, MemoryIsDoubles DEF CandlesOf
<1> QED
  BY <1>2, MemoryIsDoubles DEF MinPrice

(* A usable answer has both prices of the body.                            *)
LEMMA GoodPrices ==
  ASSUME NEW k \in GoodKlines
  PROVE  /\ k.close \in Nat \ {0} /\ MinPrice(k) \in Nat \ {0}
         /\ MinPrice(k) <= k.close
<1>1. PICK a \in Answers : IsUsable(a) /\ k \in CandlesOf(a)
  BY DEF GoodKlines
<1>2. /\ {"open_price_", "close_price_"} \subseteq ReadFields(a) /\ a.found
      /\ {"open_price_", "close_price_"} \subseteq Members
  BY <1>1, CloseAfterOpen, ReadOrderFacts DEF IsUsable
<1>3. Fetched(a)["open_price_"] = "answer" /\ Fetched(a)["close_price_"] = "answer"
  BY <1>2 DEF Fetched, Assign, ParseStr, FromTree
<1>4. k.close \in Prices /\ k.open \in Prices
  BY <1>1, <1>3 DEF CandlesOf
<1>5. k.close \in Nat \ {0} /\ k.open \in Nat \ {0}
  BY <1>4, StrategyAssumption
<1> QED
  BY <1>5, DoublesAssumption DEF MinPrice, Less

----------------------------------------------------------------------------
(* Facts about the operators.                                              *)

LEMMA SignalsType ==
  ASSUME NEW closes
  PROVE  Signals(closes) \subseteq BOOLEAN
BY DEF Signals, Oversold, RSIBelow

LEMMA WindowType ==
  ASSUME NEW s \in Seq(Memory), Len(s) <= N + 2
  PROVE  Window(s) \in Seq(Memory) /\ Len(Window(s)) <= N + 1
<1>1. CASE Len(s) > N + 1
  <2>1. s # << >>
    BY <1>1, StrategyAssumption
  <2>2. Tail(s) \in Seq(Memory) /\ Len(Tail(s)) = Len(s) - 1
    BY <2>1
  <2> QED
    BY <1>1, <2>2, StrategyAssumption DEF Window
<1>2. CASE ~(Len(s) > N + 1)
  BY <1>2, StrategyAssumption DEF Window
<1> QED
  BY <1>1, <1>2

LEMMA RecordType ==
  ASSUME NEW status \in {"BUY", "SELL", "IDLE"}, NEW p \in Doubles,
         NEW a \in Accounts
  PROVE  Record(status, p, a) \in Records
BY DEF Record, Records, Accounts

LEMMA BoughtType ==
  ASSUME NEW a \in Accounts, NEW p \in Doubles
  PROVE  Bought(a, p) \in Accounts
<1>1. Coins(a.balance, p) \in Doubles
  BY CoinsType DEF Accounts
<1>2. 0 \in Doubles
  BY DEF Doubles
<1> QED
  BY <1>1, <1>2 DEF Bought, Accounts

LEMMA DiffType ==
  ASSUME NEW r
  PROVE  Diff(r) \in Int
BY DEF Diff

LEMMA EarnedType ==
  ASSUME NEW records
  PROVE  Earned(records) \in Int
BY DiffType DEF Earned

LEMMA SoldType ==
  ASSUME NEW a \in Accounts, NEW p \in Doubles
  PROVE  Sold(a, p) \in Accounts /\ SaleRecord(p, a) \in Records
<1>1. Proceeds(a.coins, p) \in Doubles
  BY ProceedsType DEF Accounts
<1>2. 0 \in Doubles
  BY DEF Doubles
<1>3. Sold(a, p) \in Accounts
  BY <1>1, <1>2 DEF Sold, Accounts
<1>4. [Sold(a, p) EXCEPT !.old_balance = a.old_balance] \in Accounts
  BY <1>3 DEF Accounts
<1> QED
  BY <1>3, <1>4, RecordType DEF SaleRecord

----------------------------------------------------------------------------
(* The end of an iteration.                                                *)

(* What is due begins with the record of the trade, and ends with the IDLE *)
(* record when there is one.                                               *)
LEMMA DueFacts ==
  ASSUME NEW t, NEW records \in Seq(Records), Len(records) <= 1, NEW idle,
         NEW price \in Doubles, NEW a \in Accounts
  PROVE  LET r == Record("IDLE", price, a)
             due == Due(t, records, idle, price, a)
         IN /\ due \in Seq(Records) /\ Len(due) <= 2
            /\ records # << >> => due # << >> /\ Head(due) = Head(records)
            /\ records = << >> /\ due # << >> => Head(due) = r
            /\ IdleDue(t, idle) => due # << >> /\ Last(due) = r
            /\ ~IdleDue(t, idle) => due = records
<1> DEFINE r == Record("IDLE", price, a)
<1>1. r \in Records
  BY RecordType
<1>2. Due(t, records, idle, price, a) =
        IF IdleDue(t, idle) THEN Append(records, r) ELSE records
  BY DEF Due
<1> HIDE DEF r
<1>3. CASE IdleDue(t, idle)
  <2> DEFINE due == Append(records, r)
  <2>1. /\ due \in Seq(Records) /\ Len(due) = Len(records) + 1
        /\ due # << >>
        /\ records # << >> => Head(due) = Head(records)
        /\ records = << >> => Head(due) = r
        /\ due[Len(due)] = r
    BY <1>1
  <2> QED
    BY <1>2, <1>3, <2>1 DEF Last, r
<1>4. CASE ~IdleDue(t, idle)
  BY <1>2, <1>4 DEF r
<1> QED
  BY <1>3, <1>4

LEMMA PrefixFacts ==
  ASSUME NEW due \in Seq(Records), NEW n \in 0 .. Len(due) - 1
  PROVE  /\ SubSeq(due, 1, n) \in Seq(Records)
         /\ Len(SubSeq(due, 1, n)) <= Len(due)
         /\ SubSeq(due, 1, n) # << >> => Head(SubSeq(due, 1, n)) = Head(due)
<1>1. /\ SubSeq(due, 1, n) \in Seq(Records) /\ Len(SubSeq(due, 1, n)) = n
      /\ \A i \in 1 .. n : SubSeq(due, 1, n)[i] = due[i]
  OBVIOUS
<1> QED
  BY <1>1

(* How an iteration ends: it goes on to the next, or the process ends.     *)
LEMMA EndIterationFacts ==
  ASSUME NEW t, NEW records \in Seq(Records), Len(records) <= 1, NEW idle,
         NEW price \in Doubles, NEW a \in Accounts,
         EndIteration(t, records, idle, price, a)
  PROVE  LET due == Due(t, records, idle, price, a)
         IN /\ \/ pc' = "loop" /\ lasttime' = t /\ log' = due
               \/ pc' = "terminated" /\ lasttime' = lasttime
            /\ idletime' \in {idle, t}
            /\ log' \in Seq(Records) /\ Len(log') <= 2
            /\ log' # << >> => due # << >> /\ Head(log') = Head(due)
            /\ booked' = booked + Earned(log')
<1> DEFINE due == Due(t, records, idle, price, a)
<1>1. due \in Seq(Records) /\ Len(due) <= 2
  BY DueFacts
<1>2. \/ log' = due /\ idletime' \in {idle, t} /\ lasttime' = t /\ pc' = "loop"
      \/ OutputThrows(due, idle)
  BY DEF EndIteration
<1>3. booked' = booked + Earned(log')
  BY DEF EndIteration
<1> HIDE DEF due
<1>4. CASE OutputThrows(due, idle)
  <2>1. PICK n \in 0 .. Len(due) - 1 : log' = SubSeq(due, 1, n)
    BY <1>4 DEF OutputThrows
  <2>2. due # << >>
    BY <1>1, <2>1
  <2> QED
    BY <1>1, <1>3, <1>4, <2>1, <2>2, PrefixFacts DEF OutputThrows, due
<1>5. CASE ~OutputThrows(due, idle)
  BY <1>1, <1>2, <1>3, <1>5 DEF due
<1> QED
  BY <1>4, <1>5

(* Which record an iteration begins its log with.                          *)
LEMMA EndIterationHead ==
  ASSUME NEW t, NEW records \in Seq(Records), Len(records) <= 1, NEW idle,
         NEW price \in Doubles, NEW a \in Accounts,
         EndIteration(t, records, idle, price, a)
  PROVE  /\ records = << >> /\ log' # << >> =>
              Head(log') = Record("IDLE", price, a)
         /\ records # << >> /\ log' # << >> => Head(log') = Head(records)
         /\ records # << >> /\ pc' # "terminated" => log' # << >>
<1> DEFINE r == Record("IDLE", price, a)
           due == Due(t, records, idle, price, a)
<1>1. /\ records # << >> => due # << >> /\ Head(due) = Head(records)
      /\ records = << >> /\ due # << >> => Head(due) = r
  BY DueFacts
<1>2. /\ pc' # "terminated" => log' = due
      /\ log' # << >> => due # << >> /\ Head(log') = Head(due)
  BY EndIterationFacts
<1> HIDE DEF due, r
<1>3. /\ records = << >> /\ log' # << >> => Head(log') = r
      /\ records # << >> /\ log' # << >> => Head(log') = Head(records)
      /\ records # << >> /\ pc' # "terminated" => log' # << >>
  BY <1>1, <1>2
<1> QED
  BY <1>3 DEF r

----------------------------------------------------------------------------
(* Type correctness.                                                       *)

LEMMA EndIterationType ==
  ASSUME TypeOK,
         NEW t \in 0 .. Horizon, NEW records \in Seq(Records),
         Len(records) <= 1, NEW idle \in 0 .. Horizon,
         NEW price \in Doubles, NEW a \in Accounts,
         EndIteration(t, records, idle, price, a)
  PROVE  /\ pc' \in {"loop", "terminated"}
         /\ lasttime' \in 0 .. Horizon /\ idletime' \in 0 .. Horizon
         /\ log' \in Seq(Records) /\ Len(log') <= 2
         /\ booked' \in Int
<1>1. lasttime \in 0 .. Horizon /\ booked \in Int
  BY DEF TypeOK
<1>2. Earned(log') \in Int
  BY EarnedType
<1> QED
  BY <1>1, <1>2, EndIterationFacts

LEMMA SampleType ==
  ASSUME TypeOK, NEW k \in Klines, Sample(k)
  PROVE  /\ vec' \in Seq(Memory) /\ Len(vec') <= N + 1
         /\ last_price' = k.close /\ last_price' \in Doubles
         /\ oversold' \in BOOLEAN
         /\ updatetime' \in 0 .. Horizon
         /\ unseen' \in Nat
         /\ UNCHANGED <<now, setbacks, curtime, is_finished>>
<1>1. k.close \in Memory /\ k.close \in Doubles
  BY KlinePrices
<1>2. Append(vec, k.close) \in Seq(Memory)
      /\ Len(Append(vec, k.close)) = Len(vec) + 1
  BY <1>1 DEF TypeOK
<1>3. vec' \in Seq(Memory) /\ Len(vec') <= N + 1
  <2>1. Len(Append(vec, k.close)) <= N + 2
    BY <1>2, StrategyAssumption DEF TypeOK
  <2> QED
    BY <1>2, <2>1, WindowType DEF Sample
<1>4. oversold' \in BOOLEAN
  <2>1. CASE Elapsed(updatetime, curtime, Timeframe)
    BY <2>1, SignalsType DEF Sample
  <2>2. CASE ~Elapsed(updatetime, curtime, Timeframe)
    BY <2>2 DEF Sample, TypeOK
  <2> QED
    BY <2>1, <2>2
<1>5. updatetime' \in 0 .. Horizon /\ unseen' \in Nat
  BY DEF Sample, TypeOK
<1> QED
  BY <1>1, <1>3, <1>4, <1>5 DEF Sample, clock

LEMMA TypeInit == Init => TypeOK
<1> SUFFICES ASSUME Init PROVE TypeOK
  OBVIOUS
<1>1. account \in Accounts /\ last_price \in Doubles
  BY StrategyAssumption DEF Init, Accounts, Doubles
<1>2. << >> \in Seq(Memory) /\ << >> \in Seq(Records) /\ Len(<< >>) = 0
  OBVIOUS
<1> QED
  <2>1. now \in Earliest .. Horizon /\ setbacks \in 0 .. MaxSetbacks
        /\ {curtime, lasttime, idletime, updatetime} \subseteq 0 .. Horizon
    BY StrategyAssumption DEF Init
  <2>2. vec \in Seq(Memory) /\ Len(vec) <= N + 1
        /\ log \in Seq(Records) /\ Len(log) <= 2
    BY <1>2, StrategyAssumption DEF Init
  <2>3. pc \in PCs /\ booked \in Int /\ unseen \in Nat
    BY DEF Init, PCs
  <2>4. /\ oversold \in BOOLEAN /\ is_finished \in BOOLEAN
        /\ tainted \in BOOLEAN
    BY DEF Init
  <2> QED
    BY <1>1, <2>1, <2>2, <2>3, <2>4 DEF TypeOK

(* Any decision keeps the types of what it changes.                        *)
LEMMA DecideType ==
  ASSUME TypeOK, NEW k \in Klines, Decide(k), tainted' \in BOOLEAN
  PROVE  TypeOK'
<1>1. PICK records \in Seq(Records), idle \in 0 .. Horizon :
        /\ Sample(k) /\ account' \in Accounts /\ Len(records) <= 1
        /\ EndIteration(curtime, records, idle, last_price', account')
  <2>1. /\ k.close \in Doubles /\ MinPrice(k) \in Doubles
        /\ account \in Accounts /\ idletime \in 0 .. Horizon
        /\ 0 \in 0 .. Horizon
    BY KlinePrices, StrategyAssumption DEF TypeOK
  <2>2. CASE Buy(k)
    <3> DEFINE records == <<Record("BUY", MinPrice(k), account')>>
    <3>1. account' \in Accounts
      BY <2>1, <2>2, BoughtType DEF Buy, BuyAt
    <3>2. records \in Seq(Records) /\ Len(records) <= 1
      BY <2>1, <3>1, RecordType
    <3>3. Sample(k) /\ EndIteration(curtime, records, 0, last_price', account')
      BY <2>2 DEF Buy, BuyAt
    <3> QED
      BY <2>1, <3>1, <3>2, <3>3
  <2>3. CASE Sell(k)
    <3> DEFINE records == <<SaleRecord(k.close, account)>>
    <3>1. account' \in Accounts /\ SaleRecord(k.close, account) \in Records
      BY <2>1, <2>3, SoldType DEF Sell
    <3>2. records \in Seq(Records) /\ Len(records) <= 1
      BY <3>1
    <3>3. Sample(k) /\ EndIteration(curtime, records, 0, last_price', account')
      BY <2>3 DEF Sell
    <3> QED
      BY <2>1, <3>1, <3>2, <3>3
  <2>4. CASE Hold(k)
    <3>1. /\ Sample(k) /\ account' = account
          /\ EndIteration(curtime, << >>, idletime, last_price', account')
      BY <2>4 DEF Hold
    <3>2. << >> \in Seq(Records) /\ Len(<< >>) <= 1
      OBVIOUS
    <3> QED
      BY <2>1, <3>1, <3>2
  <2> QED
    BY <2>2, <2>3, <2>4 DEF Decide
<1>2. curtime \in 0 .. Horizon
  BY DEF TypeOK
<1>3. last_price' \in Doubles
  BY <1>1, SampleType
<1>4. /\ pc' \in {"loop", "terminated"}
      /\ lasttime' \in 0 .. Horizon /\ idletime' \in 0 .. Horizon
      /\ log' \in Seq(Records) /\ Len(log') <= 2
      /\ booked' \in Int
  BY <1>1, <1>2, <1>3, EndIterationType
<1> QED
  BY <1>1, <1>2, <1>4, SampleType DEF TypeOK, PCs

LEMMA LoadedType ==
  ASSUME TypeOK, NEW closes \in BoundedSeq(Memory, N + 1), LoadedWith(closes),
         tainted' \in BOOLEAN
  PROVE  TypeOK'
<1>1. closes \in Seq(Memory) /\ Len(closes) <= N + 1
  <2>1. PICK m \in 0 .. N + 1 : closes \in [1 .. m -> Memory]
    BY DEF BoundedSeq, SeqOf
  <2> QED
    BY <2>1, StrategyAssumption
<1> QED
  BY <1>1, SignalsType DEF LoadedWith, TypeOK, PCs, clock, times

LEMMA TypeNext == TypeOK /\ [Next]_vars => TypeOK'
<1> SUFFICES ASSUME TypeOK, [Next]_vars PROVE TypeOK'
  OBVIOUS
<1> USE DEF vars, clock, times, history
<1>1. CASE Clock
  BY <1>1, StrategyAssumption DEF Clock, TypeOK
<1>2. CASE GetServerTime
  BY <1>2 DEF GetServerTime, TypeOK, PCs
<1>3. CASE LoadHistory
  <2>1. PICK closes \in BoundedSeq(Prices, N + 1) : LoadedWith(closes)
    BY <1>3 DEF LoadHistory
  <2>2. closes \in BoundedSeq(Memory, N + 1)
    <3>1. PICK m \in 0 .. N + 1 : closes \in [1 .. m -> Prices]
      BY DEF BoundedSeq, SeqOf
    <3>2. closes \in [1 .. m -> Memory]
      BY <3>1, MemoryIsDoubles
    <3> QED
      BY <3>1, <3>2 DEF BoundedSeq, SeqOf
  <2>3. tainted' \in BOOLEAN
    BY <1>3 DEF LoadHistory, TypeOK
  <2> QED
    BY <2>1, <2>2, <2>3, LoadedType
<1>4. CASE LoadMalformed
  BY <1>4, LoadedType DEF LoadMalformed
<1>5. CASE FirstKline
  BY <1>5, StrategyAssumption DEF FirstKline, TypeOK, PCs
<1>6. CASE GetSymbolPrice \/ ReadPastEnd
  BY <1>6 DEF GetSymbolPrice, ReadPastEnd, TypeOK, PCs
<1>7. CASE Finish
  BY <1>7 DEF Finish, TypeOK, PCs
<1>8. CASE Spin
  <2>1. now \in 0 .. Horizon
    BY StrategyAssumption DEF TypeOK
  <2>2. << >> \in Seq(Records) /\ Len(<< >>) <= 1
    OBVIOUS
  <2>3. EndIteration(now, << >>, idletime, last_price, account)
    BY <1>8 DEF Spin
  <2>4. idletime \in 0 .. Horizon /\ last_price \in Doubles /\ account \in Accounts
    BY DEF TypeOK
  <2>5. /\ pc' \in {"loop", "terminated"}
        /\ lasttime' \in 0 .. Horizon /\ idletime' \in 0 .. Horizon
        /\ log' \in Seq(Records) /\ Len(log') <= 2 /\ booked' \in Int
    BY <2>1, <2>2, <2>3, <2>4, EndIterationType
  <2> QED
    BY <1>8, <2>1, <2>5 DEF Spin, TypeOK, PCs
<1>9. CASE NewSecond
  BY <1>9, StrategyAssumption DEF NewSecond, TypeOK, PCs
<1>10. CASE Trade
  <2>1. PICK k \in Klines : Decide(k)
    BY <1>10 DEF Trade, Klines
  <2>2. tainted' \in BOOLEAN
    BY <1>10 DEF Trade, TypeOK
  <2> QED
    BY <2>1, <2>2, DecideType
<1>11. CASE UNCHANGED vars
  BY <1>11 DEF TypeOK
<1> QED
  BY <1>1, <1>2, <1>3, <1>4, <1>5, <1>6, <1>7, <1>8, <1>9, <1>10, <1>11
  DEF Next, Startup, Loop, Stopped

(* The variables of the thread keep their types: no operation of the       *)
(* account leaves the doubles it can produce, and no clock runs away.      *)
THEOREM TypeCorrect == Spec => []TypeOK
  BY TypeInit, TypeNext, PTL DEF Spec

----------------------------------------------------------------------------
(* The account changes in two ways only.                                   *)

(* The history of the answers goes on from k.                              *)
Answered(k) == ~tainted' => ~tainted /\ k \in GoodKlines

(* Steps that leave the account alone.                                     *)
AccountKept ==
  /\ UNCHANGED account
  /\ booked' = booked
  /\ tainted => tainted'

LEMMA QuietIteration ==
  ASSUME TypeOK, NEW t, NEW idle, NEW price \in Doubles,
         EndIteration(t, << >>, idle, price, account)
  PROVE  booked' = booked /\ (log' # << >> => Head(log').status = "IDLE")
<1>1. << >> \in Seq(Records) /\ Len(<< >>) <= 1 /\ account \in Accounts
      /\ booked \in Int
  BY DEF TypeOK
<1>2. log' # << >> => Head(log') = Record("IDLE", price, account)
  BY <1>1, EndIterationHead
<1>3. log' # << >> => Head(log').status = "IDLE"
  BY <1>2 DEF Record
<1>4. Earned(log') = 0
  BY <1>3 DEF Earned
<1>5. booked' = booked + Earned(log')
  BY DEF EndIteration
<1> QED
  BY <1>1, <1>3, <1>4, <1>5

LEMMA StepKinds ==
  ASSUME TypeOK, [Next]_vars
  PROVE  /\ \/ AccountKept
            \/ \E k \in Klines : Buy(k) /\ Answered(k)
            \/ \E k \in Klines : Sell(k) /\ Answered(k)
         /\ pc = "terminated" => AccountKept /\ pc' = "terminated"
<1> USE DEF vars, clock, times, history
<1>1. CASE Clock \/ UNCHANGED vars
  BY <1>1 DEF Clock, AccountKept
<1>2. CASE GetServerTime \/ FirstKline \/ GetSymbolPrice \/ ReadPastEnd
  BY <1>2 DEF GetServerTime, FirstKline, GetSymbolPrice, ReadPastEnd, AccountKept
<1>3. CASE LoadHistory \/ LoadMalformed
  BY <1>3 DEF LoadHistory, LoadMalformed, LoadedWith, AccountKept
<1>4. CASE Finish \/ NewSecond
  BY <1>4 DEF Finish, NewSecond, AccountKept
<1>5. CASE Spin
  <2>1. EndIteration(now, << >>, idletime, last_price, account)
        /\ last_price \in Doubles /\ pc = "loop"
    BY <1>5 DEF Spin, TypeOK
  <2>2. booked' = booked
    BY <2>1, QuietIteration
  <2> QED
    BY <1>5, <2>1, <2>2 DEF Spin, AccountKept
<1>6. CASE Trade
  <2>1. PICK k \in Klines :
          Decide(k) /\ Answered(k) /\ (tainted => tainted')
    BY <1>6 DEF Trade, Klines, Answered
  <2>2. pc = "fetch" /\ last_price' \in Doubles
    BY <2>1, SampleType DEF Decide, Buy, BuyAt, Sell, Hold, Sample
  <2>3. CASE Hold(k)
    <3>1. EndIteration(curtime, << >>, idletime, last_price', account)
          /\ UNCHANGED account
      BY <2>3 DEF Hold
    <3>2. booked' = booked
      BY <2>2, <3>1, QuietIteration
    <3> QED
      BY <2>1, <2>2, <3>1, <3>2 DEF AccountKept
  <2> QED
    BY <2>1, <2>2, <2>3 DEF Decide
<1> QED
  BY <1>1, <1>2, <1>3, <1>4, <1>5, <1>6 DEF Next, Startup, Loop, Stopped

(* What a purchase and a sale do to the account, field by field.           *)
LEMMA BuyEffect ==
  ASSUME TypeOK, NEW k \in Klines, Buy(k)
  PROVE  /\ ~account.in_order /\ account'.in_order
         /\ account'.balance = 0
         /\ account'.coins = Coins(account.balance, MinPrice(k))
         /\ account'.old_balance = account.old_balance
         /\ booked' = booked
         /\ log' # << >> => Head(log').status = "BUY"
                            /\ Head(log').price = MinPrice(k)
<1> DEFINE r == Record("BUY", MinPrice(k), account')
<1>1. account' = Bought(account, MinPrice(k)) /\ account \in Accounts
      /\ MinPrice(k) \in Doubles /\ booked \in Int
  BY KlinePrices DEF Buy, BuyAt, TypeOK
<1>2. account' \in Accounts /\ last_price' \in Doubles
  BY <1>1, BoughtType, SampleType DEF Buy, BuyAt
<1>3. r \in Records /\ r.status = "BUY" /\ r.price = MinPrice(k)
  BY <1>1, <1>2, RecordType DEF Record
<1>4. EndIteration(curtime, <<r>>, 0, last_price', account')
  BY DEF Buy, BuyAt
<1> HIDE DEF r
<1>5. <<r>> \in Seq(Records) /\ Len(<<r>>) <= 1 /\ <<r>> # << >> /\ Head(<<r>>) = r
  BY <1>3
<1>6. log' # << >> => Head(log') = r
  BY <1>2, <1>4, <1>5, EndIterationHead
<1>7. booked' = booked
  <2>1. Earned(log') = 0
    BY <1>3, <1>6 DEF Earned
  <2>2. booked' = booked + Earned(log')
    BY <1>4 DEF EndIteration
  <2> QED
    BY <1>1, <2>1, <2>2
<1>8. ~account.in_order
  BY DEF Buy, BuyAt
<1> QED
  BY <1>1, <1>3, <1>6, <1>7, <1>8 DEF Bought, Accounts

LEMMA SellEffect ==
  ASSUME TypeOK, NEW k \in Klines, Sell(k)
  PROVE  LET s == Proceeds(account.coins, k.close)
             r == SaleRecord(k.close, account)
         IN /\ account.in_order /\ ~account'.in_order
            /\ \/ HitsTarget(account.coins, k.close, account.old_balance)
               \/ HitsStop(account.coins, k.close, account.old_balance)
            /\ account'.balance = s
            /\ account'.coins = 0
            /\ account'.old_balance = s
            /\ r.balance = s /\ r.old_balance = account.old_balance
            /\ pc' # "terminated" => booked' = booked + Diff(r)
            /\ log' # << >> => Head(log').status = "SELL"
<1> DEFINE r == SaleRecord(k.close, account)
<1>1. account' = Sold(account, k.close) /\ account \in Accounts
      /\ k.close \in Doubles /\ SellDue(account, k.close)
  BY KlinePrices DEF Sell, TypeOK
<1>2. account' \in Accounts /\ last_price' \in Doubles /\ r \in Records
  BY <1>1, SoldType, SampleType DEF Sell
<1>3. /\ r.status = "SELL" /\ r.old_balance = account.old_balance
      /\ r.balance = Proceeds(account.coins, k.close)
  BY <1>1 DEF SaleRecord, Record, Sold, Accounts
<1>4. EndIteration(curtime, <<r>>, 0, last_price', account')
  BY DEF Sell
<1> HIDE DEF r
<1>5. <<r>> \in Seq(Records) /\ Len(<<r>>) <= 1 /\ <<r>> # << >> /\ Head(<<r>>) = r
  BY <1>2
<1>6. /\ log' # << >> => Head(log') = r
      /\ pc' # "terminated" => log' # << >>
  BY <1>2, <1>4, <1>5, EndIterationHead
<1>7. pc' # "terminated" => booked' = booked + Diff(r)
  <2>1. booked' = booked + Earned(log')
    BY <1>4 DEF EndIteration
  <2> QED
    BY <1>3, <1>6, <2>1 DEF Earned
<1> QED
  BY <1>1, <1>3, <1>6, <1>7 DEF SellDue, Sold, Accounts, r

(* Money is in one place.                                                  *)
LEMMA AccountNext == TypeOK /\ AccountOK /\ [Next]_vars => AccountOK'
<1> SUFFICES ASSUME TypeOK, AccountOK, [Next]_vars PROVE AccountOK'
  OBVIOUS
<1>1. CASE AccountKept
  BY <1>1 DEF AccountOK, AccountKept
<1>2. ASSUME NEW k \in Klines, Buy(k) PROVE AccountOK'
  BY <1>2, BuyEffect DEF AccountOK
<1>3. ASSUME NEW k \in Klines, Sell(k) PROVE AccountOK'
  BY <1>3, SellEffect DEF AccountOK
<1> QED
  BY <1>1, <1>2, <1>3, StepKinds

THEOREM MoneyInOnePlace == Spec => []AccountOK
<1>1. Init => AccountOK
  BY DEF Init, AccountOK
<1> QED
  BY <1>1, AccountNext, TypeCorrect, PTL DEF Spec

----------------------------------------------------------------------------
(* Usable answers keep the amounts natural, and then the books balance.    *)

LEMMA FiniteProceeds ==
  ASSUME NEW c \in Nat, NEW p \in Nat
  PROVE  Proceeds(c, p) \in Nat
<1>1. c \in Doubles /\ p \in Doubles
  BY DEF Doubles
<1>2. Worth(c, p) = c * p /\ c * p \in Nat
  BY ProductIsNat DEF Worth, Times
<1> QED
  BY <1>1, <1>2, ProceedsBounds

LEMMA FiniteNext ==
  TypeOK /\ OnlyBadAnswersCorrupt /\ [Next]_vars => OnlyBadAnswersCorrupt'
<1> SUFFICES ASSUME TypeOK, OnlyBadAnswersCorrupt, [Next]_vars, ~tainted'
             PROVE  {account.balance, account.coins, account.old_balance}'
                      \subseteq Nat
  BY DEF OnlyBadAnswersCorrupt
<1>1. CASE AccountKept
  BY <1>1 DEF OnlyBadAnswersCorrupt, AccountKept
<1>2. ASSUME NEW k \in Klines, Buy(k), Answered(k)
      PROVE  /\ account'.balance \in Nat
             /\ account'.coins \in Nat
             /\ account'.old_balance \in Nat
  <2>1. ~tainted /\ k \in GoodKlines
    BY <1>2 DEF Answered
  <2>2. account.balance \in Nat /\ account.old_balance \in Nat
    BY <2>1 DEF OnlyBadAnswersCorrupt
  <2>3. Coins(account.balance, MinPrice(k)) \in Nat
    BY <2>1, <2>2, GoodPrices, CoinsOfQuote
  <2> QED
    BY <1>2, <2>2, <2>3, BuyEffect
<1>3. ASSUME NEW k \in Klines, Sell(k), Answered(k)
      PROVE  /\ account'.balance \in Nat
             /\ account'.coins \in Nat
             /\ account'.old_balance \in Nat
  <2>1. ~tainted /\ k \in GoodKlines
    BY <1>3 DEF Answered
  <2>2. account.coins \in Nat /\ k.close \in Nat
    BY <2>1, GoodPrices DEF OnlyBadAnswersCorrupt
  <2>3. Proceeds(account.coins, k.close) \in Nat
    BY <2>2, FiniteProceeds
  <2> QED
    BY <1>3, <2>3, SellEffect
<1> QED
  BY <1>1, <1>2, <1>3, StepKinds

(* Without an unusable answer there is no division by zero, and no amount  *)
(* falls below it.                                                         *)
THEOREM FiniteWithoutBadAnswers == Spec => []OnlyBadAnswersCorrupt
<1>1. Init => OnlyBadAnswersCorrupt
  BY StrategyAssumption DEF Init, OnlyBadAnswersCorrupt
<1> QED
  BY <1>1, FiniteNext, TypeCorrect, PTL DEF Spec

LEMMA BooksNext ==
  /\ TypeOK /\ OnlyBadAnswersCorrupt /\ OnlyBadAnswersCorrupt'
  /\ BooksBalance /\ [Next]_vars
  => BooksBalance'
<1> SUFFICES ASSUME TypeOK, OnlyBadAnswersCorrupt, OnlyBadAnswersCorrupt',
                    BooksBalance, [Next]_vars, ~tainted', pc' # "terminated"
             PROVE  booked' = account'.old_balance - StartBalance
  BY DEF BooksBalance
<1>0. pc # "terminated"
  BY StepKinds
<1>1. CASE AccountKept
  BY <1>0, <1>1 DEF BooksBalance, AccountKept
<1>2. ASSUME NEW k \in Klines, Buy(k), Answered(k)
      PROVE  booked' = account'.old_balance - StartBalance
  BY <1>0, <1>2, BuyEffect DEF BooksBalance, Answered
<1>3. ASSUME NEW k \in Klines, Sell(k), Answered(k)
      PROVE  booked' = account'.old_balance - StartBalance
  <2> DEFINE s == Proceeds(account.coins, k.close)
             r == SaleRecord(k.close, account)
  <2>1. ~tainted /\ account'.old_balance = s
    BY <1>3, SellEffect DEF Answered
  <2>2. account.old_balance \in Nat /\ s \in Nat
    BY <2>1 DEF OnlyBadAnswersCorrupt
  <2>3. r.balance = s /\ r.old_balance = account.old_balance
        /\ booked' = booked + Diff(r)
    BY <1>3, SellEffect
  <2> HIDE DEF r, s
  <2>4. Diff(r) = s - account.old_balance
    BY <2>2, <2>3 DEF Diff
  <2>5. booked = account.old_balance - StartBalance
    BY <1>0, <2>1 DEF BooksBalance
  <2> QED
    BY <2>1, <2>2, <2>3, <2>4, <2>5, StrategyAssumption
<1> QED
  BY <1>1, <1>2, <1>3, StepKinds

(* The profits in the log add up to the profit of the account.             *)
THEOREM LogAddsUp == Spec => []BooksBalance
<1>1. Init => BooksBalance
  BY StrategyAssumption DEF Init, BooksBalance
<1> QED
  BY <1>1, BooksNext, FiniteWithoutBadAnswers, TypeCorrect, PTL DEF Spec

----------------------------------------------------------------------------
(* The capital is not NaN, whatever the exchange answers.                  *)

LEMMA CapitalNext == TypeOK /\ CapitalIsANumber /\ [Next]_vars => CapitalIsANumber'
<1> SUFFICES ASSUME TypeOK, CapitalIsANumber, [Next]_vars
             PROVE  CapitalIsANumber'
  OBVIOUS
<1>1. CASE AccountKept
  BY <1>1 DEF CapitalIsANumber, AccountKept
<1>2. ASSUME NEW k \in Klines, Buy(k) PROVE CapitalIsANumber'
  BY <1>2, BuyEffect, DoublesAssumption DEF CapitalIsANumber
<1>3. ASSUME NEW k \in Klines, Sell(k) PROVE CapitalIsANumber'
  <2>1. /\ account.coins \in Doubles /\ account.old_balance \in Doubles
        /\ k.close \in Doubles
    BY KlinePrices DEF TypeOK, Accounts
  <2>2. Proceeds(account.coins, k.close) # NaN
    BY <1>3, <2>1, SellEffect, SoldIsWorthSomething
  <2> QED
    BY <1>3, <2>2, SellEffect DEF CapitalIsANumber
<1> QED
  BY <1>1, <1>2, <1>3, StepKinds

(* No NaN reaches the capital, whatever doubles memory supplies for the    *)
(* prices: a position worth NaN is never sold.                             *)
THEOREM CapitalNeverNaN == Spec => []CapitalIsANumber
<1>1. Init => CapitalIsANumber
  BY StrategyAssumption, DoublesAssumption DEF Init, CapitalIsANumber
<1> QED
  BY <1>1, CapitalNext, TypeCorrect, PTL DEF Spec

----------------------------------------------------------------------------
(* The log shows the account.  The strengthening says that a second the    *)
(* loop acts on is late enough for an IDLE record to be due after a trade  *)
(* has reset idletime to 0.                                                *)

LogInv ==
  /\ pc = "fetch" => curtime >= LogTime
  /\ LogShowsAccount

LEMMA EndIterationLog ==
  ASSUME NEW t \in Nat, NEW idle \in Nat,
         NEW records \in Seq(Records), Len(records) <= 1,
         NEW price \in Doubles, NEW a \in Accounts,
         records = << >> \/ (idle = 0 /\ t >= LogTime),
         EndIteration(t, records, idle, price, a)
  PROVE  /\ pc' # "fetch"
         /\ log' # << >> /\ pc' # "terminated" =>
              Last(log') = Record("IDLE", price, a)
<1> DEFINE r == Record("IDLE", price, a)
           due == Due(t, records, idle, price, a)
<1>1. /\ IdleDue(t, idle) => due # << >> /\ Last(due) = r
      /\ ~IdleDue(t, idle) => due = records
  BY DueFacts
<1>2. pc' = "terminated" \/ (pc' = "loop" /\ log' = due)
  BY EndIterationFacts
<1> HIDE DEF due, r
<1>3. records # << >> => IdleDue(t, idle)
  BY StrategyAssumption DEF IdleDue, Elapsed
<1>4. pc' # "fetch" /\ (log' # << >> /\ pc' # "terminated" => Last(log') = r)
  BY <1>1, <1>2, <1>3
<1> QED
  BY <1>4 DEF r

LEMMA LogNext == TypeOK /\ TypeOK' /\ LogInv /\ [Next]_vars => LogInv'
<1> SUFFICES ASSUME TypeOK, TypeOK', LogInv, [Next]_vars PROVE LogInv'
  OBVIOUS
<1> USE DEF vars, clock, times, history
<1>1. CASE Clock \/ UNCHANGED vars
  BY <1>1 DEF Clock, LogInv, LogShowsAccount
<1>2. CASE GetServerTime \/ LoadHistory \/ LoadMalformed \/ FirstKline
  BY <1>2 DEF GetServerTime, LoadHistory, LoadMalformed, LoadedWith, FirstKline,
              LogInv, LogShowsAccount
<1>3. CASE GetSymbolPrice \/ Finish \/ ReadPastEnd
  BY <1>3 DEF GetSymbolPrice, Finish, ReadPastEnd, LogInv, LogShowsAccount
<1>4. CASE NewSecond
  <2>1. now >= LogTime
    <3>1. now \in Earliest .. Horizon
      BY DEF TypeOK
    <3> QED
      BY <3>1, StrategyAssumption
  <2> QED
    BY <1>4, <2>1 DEF NewSecond, LogInv, LogShowsAccount
<1>5. CASE Spin
  <2>1. /\ now \in Nat /\ idletime \in Nat
        /\ last_price \in Doubles /\ account \in Accounts
        /\ << >> \in Seq(Records) /\ Len(<< >>) <= 1
    BY StrategyAssumption DEF TypeOK
  <2>2. EndIteration(now, << >>, idletime, last_price, account)
        /\ UNCHANGED <<last_price, account>>
    BY <1>5 DEF Spin
  <2> QED
    BY <2>1, <2>2, EndIterationLog DEF LogInv, LogShowsAccount
<1>6. /\ curtime \in Nat /\ idletime \in Nat
      /\ last_price' \in Doubles /\ account' \in Accounts
      /\ account \in Accounts
  BY StrategyAssumption DEF TypeOK
<1>7. ASSUME pc = "fetch",
             NEW records \in Seq(Records), Len(records) <= 1,
             NEW idle \in Nat, records = << >> \/ idle = 0,
             EndIteration(curtime, records, idle, last_price', account')
      PROVE  LogInv'
  <2>1. curtime >= LogTime
    BY <1>7 DEF LogInv
  <2>2. /\ pc' # "fetch"
        /\ log' # << >> /\ pc' # "terminated" =>
             Last(log') = Record("IDLE", last_price', account')
    BY <1>6, <1>7, <2>1, EndIterationLog
  <2> QED
    BY <2>2 DEF LogInv, LogShowsAccount, Record
<1>8. ASSUME NEW k \in Klines, Decide(k) PROVE LogInv'
  <2>1. pc = "fetch" /\ k.close \in Doubles /\ MinPrice(k) \in Doubles
    BY <1>8, KlinePrices DEF Decide, Buy, BuyAt, Sell, Hold, Sample
  <2>2. CASE Buy(k)
    <3> DEFINE r == Record("BUY", MinPrice(k), account')
    <3>1. r \in Records
      BY <1>6, <2>1, RecordType
    <3>2. EndIteration(curtime, <<r>>, 0, last_price', account')
      BY <2>2 DEF Buy, BuyAt
    <3> HIDE DEF r
    <3>3. <<r>> \in Seq(Records) /\ Len(<<r>>) <= 1
      BY <3>1
    <3> QED
      BY <1>7, <2>1, <3>2, <3>3
  <2>3. CASE Sell(k)
    <3> DEFINE r == SaleRecord(k.close, account)
    <3>1. r \in Records
      BY <1>6, <2>1, SoldType
    <3>2. EndIteration(curtime, <<r>>, 0, last_price', account')
      BY <2>3 DEF Sell
    <3> HIDE DEF r
    <3>3. <<r>> \in Seq(Records) /\ Len(<<r>>) <= 1
      BY <3>1
    <3> QED
      BY <1>7, <2>1, <3>2, <3>3
  <2>4. CASE Hold(k)
    <3>1. EndIteration(curtime, << >>, idletime, last_price', account')
      BY <2>4 DEF Hold
    <3>2. << >> \in Seq(Records) /\ Len(<< >>) <= 1
      OBVIOUS
    <3> QED
      BY <1>6, <1>7, <2>1, <3>1, <3>2
  <2> QED
    BY <1>8, <2>2, <2>3, <2>4 DEF Decide
<1> QED
  BY <1>1, <1>2, <1>3, <1>4, <1>5, <1>8
  DEF Next, Startup, Loop, Trade, Stopped, Klines

(* The last record of every iteration that logs is the account itself.     *)
THEOREM LogIsCurrent == Spec => []LogShowsAccount
<1>1. Init => LogInv
  BY DEF Init, LogInv, LogShowsAccount
<1>2. LogInv => LogShowsAccount
  BY DEF LogInv
<1> QED
  BY <1>1, <1>2, LogNext, TypeCorrect, PTL DEF Spec

----------------------------------------------------------------------------
(* The candles that the RSI misses.  A budget of m candles, a timeframe    *)
(* for every setback so far, comes on top of the seconds between the last  *)
(* RSI and the last iteration.  A clock that is behind the last iteration, *)
(* and may bring the same seconds again, has been set back, and left room  *)
(* for them in the budget.                                                 *)

Counted(u, m, last, computed) ==
  (last >= computed /\ u <= m + (last - computed)) \/ u <= m - 1

Budget == setbacks * Timeframe

RsiInv ==
  /\ RsiMissesFew
  /\ pc \in {"server_time", "history", "first_kline"} => unseen = 0
  /\ pc \in {"symbol_price", "loop", "fetch"} =>
       Counted(unseen, Budget, lasttime, updatetime)
  /\ pc \in {"symbol_price", "loop"} =>
       (now < lasttime => unseen <= Budget - 1)
  /\ pc = "fetch" =>
       /\ curtime > lasttime
       /\ now < curtime =>
            /\ setbacks >= 1
            /\ ~Elapsed(updatetime, curtime, Timeframe) => unseen + 1 <= Budget - 1

LEMMA BudgetFacts ==
  ASSUME NEW s \in Nat
  PROVE  /\ s * Timeframe \in Nat
         /\ (s + 1) * Timeframe = s * Timeframe + Timeframe
         /\ s >= 1 => s * Timeframe >= Timeframe
<1>1. Timeframe \in Nat \ {0}
  BY StrategyAssumption
<1>2. s * Timeframe \in Nat /\ (s + 1) * Timeframe = s * Timeframe + Timeframe
  BY <1>1
<1>3. CASE s >= 1
  <2>1. s - 1 \in Nat
    BY <1>3
  <2>2. (s - 1) * Timeframe \in Nat /\ s * Timeframe = (s - 1) * Timeframe + Timeframe
    BY <1>1, <2>1
  <2> QED
    BY <1>1, <1>2, <2>2
<1> QED
  BY <1>2, <1>3

(* RsiMissesFew, in terms of the budget.                                   *)
LEMMA MissesFewBudget ==
  ASSUME TypeOK
  PROVE  /\ Budget \in Nat
         /\ RsiMissesFew <=> unseen <= (Budget + Timeframe) - 1
<1>1. setbacks \in Nat
  BY StrategyAssumption DEF TypeOK
<1>2. Budget \in Nat /\ (setbacks + 1) * Timeframe = Budget + Timeframe
  BY <1>1, BudgetFacts DEF Budget
<1> QED
  BY <1>2 DEF RsiMissesFew

LEMMA RsiInit == Init => RsiInv
<1> SUFFICES ASSUME Init PROVE RsiInv
  OBVIOUS
<1>1. RsiMissesFew
  BY TypeInit, MissesFewBudget, StrategyAssumption DEF Init
<1> QED
  BY <1>1 DEF Init, RsiInv

LEMMA RsiClock ==
  ASSUME TypeOK, TypeOK', RsiInv, Clock
  PROVE  RsiInv'
<1>1. /\ UNCHANGED <<pc, curtime, lasttime, idletime, updatetime, unseen>>
      /\ now \in Int /\ now' \in Int /\ setbacks \in Nat
      /\ curtime \in Int /\ lasttime \in Int /\ updatetime \in Int /\ unseen \in Nat
  BY StrategyAssumption DEF Clock, TypeOK, times, history
<1>2. PICK m \in Nat : m = Budget
  BY MissesFewBudget
<1>3. PICK n \in Nat : n = Budget'
  <2>1. setbacks' \in Nat /\ Budget' = setbacks' * Timeframe
    BY StrategyAssumption DEF TypeOK, Budget
  <2> QED
    BY <2>1, BudgetFacts
<1>4. /\ Timeframe \in Nat \ {0}
      /\ RsiMissesFew <=> unseen <= (m + Timeframe) - 1
      /\ RsiMissesFew' <=> unseen' <= (n + Timeframe) - 1
  <2>1. setbacks' \in Nat /\ n = setbacks' * Timeframe
    BY <1>3, StrategyAssumption DEF TypeOK, Budget
  <2>2. (setbacks' + 1) * Timeframe = n + Timeframe
    BY <2>1, BudgetFacts
  <2>3. RsiMissesFew' <=> unseen' <= (n + Timeframe) - 1
    BY <2>2 DEF RsiMissesFew
  <2> QED
    BY <1>2, <2>3, MissesFewBudget, StrategyAssumption
<1>5. \/ setbacks' = setbacks /\ n = m /\ now' >= now
      \/ setbacks' = setbacks + 1 /\ n = m + Timeframe
  <2>1. CASE setbacks' = setbacks
    <3>1. n = m
      BY <1>2, <1>3, <2>1 DEF Budget
    <3>2. now' >= now
      BY <1>1, <2>1, StrategyAssumption DEF Clock
    <3> QED
      BY <2>1, <3>1, <3>2
  <2>2. CASE setbacks' # setbacks
    <3>1. setbacks' = setbacks + 1
      BY <2>2 DEF Clock
    <3> QED
      BY <1>1, <1>2, <1>3, <3>1, BudgetFacts DEF Budget
  <2> QED
    BY <2>1, <2>2
<1>6. unseen <= (m + Timeframe) - 1 /\ unseen' = unseen
  BY <1>1, <1>4 DEF RsiInv
<1>7. RsiMissesFew'
  BY <1>1, <1>4, <1>5, <1>6
<1>8. Counted(unseen, m, lasttime, updatetime) =>
        Counted(unseen, n, lasttime, updatetime)
  BY <1>1, <1>4, <1>5 DEF Counted
<1>9. ASSUME pc \in {"symbol_price", "loop"}, now' < lasttime
      PROVE  unseen <= n - 1
  <2>1. now < lasttime => unseen <= m - 1
    BY <1>2, <1>9 DEF RsiInv
  <2> QED
    BY <1>1, <1>4, <1>5, <1>6, <1>9, <2>1
<1>10. ASSUME pc = "fetch", now' < curtime
       PROVE  /\ setbacks' >= 1
              /\ ~Elapsed(updatetime, curtime, Timeframe) => unseen + 1 <= n - 1
  <2>1. /\ Counted(unseen, m, lasttime, updatetime) /\ curtime > lasttime
        /\ now < curtime =>
             /\ setbacks >= 1
             /\ ~Elapsed(updatetime, curtime, Timeframe) => unseen + 1 <= m - 1
    BY <1>2, <1>10 DEF RsiInv
  <2>2. CASE setbacks' = setbacks
    <3>1. n = m /\ now' >= now
      BY <1>1, <1>4, <1>5, <2>2
    <3>2. now < curtime
      BY <1>1, <1>10, <3>1
    <3> QED
      BY <2>1, <2>2, <3>1, <3>2
  <2>3. CASE setbacks' = setbacks + 1
    <3>1. n = m + Timeframe
      BY <1>1, <1>5, <2>3
    <3>2. ASSUME ~Elapsed(updatetime, curtime, Timeframe)
          PROVE  unseen + 1 <= n - 1
      <4>1. curtime - updatetime >= 0 /\ curtime - updatetime <= Timeframe - 1
        BY <1>1, <1>4, <3>2 DEF Elapsed
      <4>2. unseen + 1 <= m + (curtime - updatetime)
        BY <1>1, <2>1, <4>1 DEF Counted
      <4> QED
        BY <1>1, <1>4, <3>1, <4>1, <4>2
    <3> QED
      BY <1>1, <2>3, <3>2
  <2> QED
    BY <1>5, <2>2, <2>3
<1> QED
  BY <1>1, <1>2, <1>3, <1>7, <1>8, <1>9, <1>10 DEF RsiInv

(* The answer arrives.                                                     *)
LEMMA RsiSample ==
  ASSUME TypeOK, RsiInv, NEW k \in Klines, Sample(k),
         pc' = "terminated" \/ (pc' = "loop" /\ lasttime' = curtime)
  PROVE  RsiInv'
<1> DEFINE m == Budget
<1>1. /\ UNCHANGED <<now, setbacks, curtime>> /\ pc = "fetch"
      /\ now \in Int /\ setbacks \in Nat
      /\ curtime \in Int /\ lasttime \in Int /\ updatetime \in Int /\ unseen \in Nat
  BY StrategyAssumption DEF Sample, TypeOK, clock
<1>2. /\ m \in Nat /\ m' = m /\ Timeframe \in Nat \ {0}
      /\ unseen <= (m + Timeframe) - 1
      /\ RsiMissesFew' <=> unseen' <= (m + Timeframe) - 1
      /\ setbacks >= 1 => m >= Timeframe
  <2>1. m' = m /\ (setbacks >= 1 => m >= Timeframe) /\ m \in Nat
        /\ (setbacks + 1) * Timeframe = m + Timeframe
    BY <1>1, BudgetFacts DEF Budget
  <2>2. RsiMissesFew' <=> unseen' <= (m + Timeframe) - 1
    BY <1>1, <2>1 DEF RsiMissesFew
  <2> QED
    BY <2>1, <2>2, MissesFewBudget, StrategyAssumption DEF RsiInv
<1>3. /\ Counted(unseen, m, lasttime, updatetime) /\ curtime > lasttime
      /\ now < curtime =>
           /\ setbacks >= 1
           /\ ~Elapsed(updatetime, curtime, Timeframe) => unseen + 1 <= m - 1
  BY <1>1 DEF RsiInv
<1>4. CASE Elapsed(updatetime, curtime, Timeframe)
  <2>1. unseen' = 0 /\ updatetime' = curtime
    BY <1>4 DEF Sample
  <2> HIDE DEF m
  <2>2. Counted(0, m, curtime, curtime) /\ (now < curtime => 0 <= m - 1)
    BY <1>1, <1>2, <1>3 DEF Counted
  <2>3. RsiMissesFew'
    BY <1>2, <2>1
  <2> QED
    BY <1>1, <1>2, <2>1, <2>2, <2>3 DEF RsiInv, m
<1>5. CASE ~Elapsed(updatetime, curtime, Timeframe)
  <2>1. unseen' = unseen + 1 /\ updatetime' = updatetime
    BY <1>5 DEF Sample
  <2> HIDE DEF m
  <2>2. curtime - updatetime >= 0 /\ curtime - updatetime <= Timeframe - 1
    BY <1>1, <1>2, <1>5 DEF Elapsed
  <2>3. unseen + 1 <= m + (curtime - updatetime)
    BY <1>1, <1>2, <1>3, <2>2 DEF Counted
  <2>4. Counted(unseen + 1, m, curtime, updatetime)
    BY <1>1, <2>2, <2>3 DEF Counted
  <2>5. now < curtime => unseen + 1 <= m - 1
    BY <1>3, <1>5
  <2>6. RsiMissesFew'
    BY <1>1, <1>2, <2>1, <2>2, <2>3
  <2> QED
    BY <1>1, <1>2, <2>1, <2>4, <2>5, <2>6 DEF RsiInv, m
<1> QED
  BY <1>4, <1>5

LEMMA RsiNext == TypeOK /\ TypeOK' /\ RsiInv /\ [Next]_vars => RsiInv'
<1> SUFFICES ASSUME TypeOK, TypeOK', RsiInv, [Next]_vars PROVE RsiInv'
  OBVIOUS
<1> USE DEF vars, clock, times, history
<1>1. CASE UNCHANGED vars
  BY <1>1 DEF RsiInv, RsiMissesFew, Budget
<1>2. CASE GetServerTime \/ LoadHistory \/ LoadMalformed
  BY <1>2 DEF GetServerTime, LoadHistory, LoadMalformed, LoadedWith, RsiInv,
              RsiMissesFew, Budget
<1>3. CASE FirstKline
  <2>1. now \in Int /\ Budget \in Nat
    BY MissesFewBudget, StrategyAssumption DEF TypeOK
  <2>2. Counted(0, Budget, now, now) /\ ~(now < now)
    BY <2>1 DEF Counted
  <2> QED
    BY <1>3, <2>2 DEF FirstKline, RsiInv, RsiMissesFew, Budget
<1>4. CASE GetSymbolPrice \/ Finish \/ ReadPastEnd
  BY <1>4 DEF GetSymbolPrice, Finish, ReadPastEnd, RsiInv, RsiMissesFew, Budget
<1>5. CASE NewSecond
  <2>1. now > lasttime /\ ~(now < now)
    BY <1>5, StrategyAssumption DEF NewSecond, Ticked, TypeOK
  <2> QED
    BY <1>5, <2>1 DEF NewSecond, RsiInv, RsiMissesFew, Budget
<1>6. CASE Spin
  <2>1. /\ now <= lasttime /\ ~(now < now)
        /\ pc = "loop" /\ UNCHANGED <<now, setbacks, updatetime, unseen>>
    BY <1>6, StrategyAssumption DEF Spin, Ticked, TypeOK
  <2>2. /\ now \in Int /\ lasttime \in Int /\ updatetime \in Int
        /\ unseen \in Nat /\ Budget \in Nat
    BY MissesFewBudget, StrategyAssumption DEF TypeOK
  <2>3. pc' = "terminated" \/ (pc' = "loop" /\ lasttime' = now)
    <3>1. EndIteration(now, << >>, idletime, last_price, account)
          /\ << >> \in Seq(Records) /\ Len(<< >>) <= 1
          /\ last_price \in Doubles /\ account \in Accounts
      BY <1>6 DEF Spin, TypeOK
    <3> QED
      BY <3>1, EndIterationFacts
  <2>4. Counted(unseen, Budget, now, updatetime)
    <3>1. CASE now = lasttime
      BY <2>1, <3>1 DEF RsiInv
    <3>2. CASE now < lasttime
      BY <2>1, <2>2, <3>2 DEF RsiInv, Counted
    <3> QED
      BY <2>1, <2>2, <3>1, <3>2
  <2> QED
    BY <2>1, <2>3, <2>4 DEF RsiInv, RsiMissesFew, Budget
<1>7. ASSUME NEW k \in Klines, Decide(k) PROVE RsiInv'
  <2>1. /\ Sample(k)
        /\ account' \in Accounts /\ last_price' \in Doubles
        /\ account \in Accounts
        /\ k.close \in Doubles /\ MinPrice(k) \in Doubles
    BY <1>7, KlinePrices DEF Decide, Buy, BuyAt, Sell, Hold, TypeOK
  <2>2. ASSUME NEW records \in Seq(Records), Len(records) <= 1, NEW idle,
               EndIteration(curtime, records, idle, last_price', account')
        PROVE  pc' = "terminated" \/ (pc' = "loop" /\ lasttime' = curtime)
    BY <2>1, <2>2, EndIterationFacts
  <2>3. CASE Buy(k)
    <3> DEFINE r == Record("BUY", MinPrice(k), account')
    <3>1. r \in Records
      BY <2>1, RecordType
    <3>2. EndIteration(curtime, <<r>>, 0, last_price', account')
      BY <2>3 DEF Buy, BuyAt
    <3> HIDE DEF r
    <3>3. <<r>> \in Seq(Records) /\ Len(<<r>>) <= 1
      BY <3>1
    <3> QED
      BY <2>1, <2>2, <3>2, <3>3, RsiSample
  <2>4. CASE Sell(k)
    <3> DEFINE r == SaleRecord(k.close, account)
    <3>1. r \in Records
      BY <2>1, SoldType
    <3>2. EndIteration(curtime, <<r>>, 0, last_price', account')
      BY <2>4 DEF Sell
    <3> HIDE DEF r
    <3>3. <<r>> \in Seq(Records) /\ Len(<<r>>) <= 1
      BY <3>1
    <3> QED
      BY <2>1, <2>2, <3>2, <3>3, RsiSample
  <2>5. CASE Hold(k)
    <3>1. EndIteration(curtime, << >>, idletime, last_price', account')
      BY <2>5 DEF Hold
    <3>2. << >> \in Seq(Records) /\ Len(<< >>) <= 1
      OBVIOUS
    <3> QED
      BY <2>1, <2>2, <3>1, <3>2, RsiSample
  <2> QED
    BY <1>7, <2>3, <2>4, <2>5 DEF Decide
<1> QED
  BY <1>1, <1>2, <1>3, <1>4, <1>5, <1>6, <1>7, RsiClock
  DEF Next, Startup, Loop, Trade, Stopped, Klines

(* Fewer candles than a timeframe has seconds are missed by the RSI of a   *)
(* decision, and for every setback of the clock as many more at most.      *)
THEOREM RsiMissesFewCandles == Spec => []RsiMissesFew
<1>1. RsiInv => RsiMissesFew
  BY DEF RsiInv
<1> QED
  BY <1>1, RsiInit, RsiNext, TypeCorrect, PTL DEF Spec

----------------------------------------------------------------------------
(* Refinement: the thread implements the paper account.                    *)

LEMMA SameArithmetic ==
  ASSUME NEW x, NEW y
  PROVE  /\ PA!Times(x, y) = Times(x, y)
         /\ PA!Less(x, y) <=> Less(x, y)
         /\ PA!AtLeast(x, y) <=> AtLeast(x, y)
         /\ PA!RoundedUp(x) = RoundedUp(x)
<1>1. \A z : PA!Negative(z) <=> Negative(z)
  BY DEF PA!Negative, Negative
<1>2. PA!Times(x, y) = Times(x, y)
  BY <1>1 DEF PA!Times, Times, PA!Signed, Signed
<1>3. PA!Less(x, y) <=> Less(x, y)
  BY DEF PA!Less, Less
<1> QED
  BY <1>2, <1>3 DEF PA!AtLeast, AtLeast, PA!RoundedUp, RoundedUp

LEMMA SameOutcomes ==
  ASSUME NEW o, NEW c
  PROVE  /\ PA!Gained(o, c) <=> Gained(o, c)
         /\ PA!Lost(o, c) <=> Lost(o, c)
         /\ PA!Doubles = Doubles
BY SameArithmetic DEF PA!Gained, PA!Lost, PA!Doubles, PA!FeeNum, PA!FeeDen,
   Gained, Lost, Doubles, FeeNum, FeeDen

LEMMA SaleOutcome ==
  ASSUME TypeOK, NEW k \in Klines, Sell(k)
  PROVE  /\ account'.old_balance \in Doubles
         /\ \/ Gained(account.old_balance, account'.old_balance)
            \/ Lost(account.old_balance, account'.old_balance)
<1> DEFINE c == account.coins
           o == account.old_balance
<1>1. c \in Doubles /\ o \in Doubles /\ k.close \in Doubles
  BY KlinePrices DEF TypeOK, Accounts
<1>2. /\ account'.old_balance = Proceeds(c, k.close)
      /\ HitsTarget(c, k.close, o) \/ HitsStop(c, k.close, o)
  BY SellEffect
<1> HIDE DEF c, o
<1>3. Proceeds(c, k.close) \in Doubles
  BY <1>1, ProceedsType
<1>4. Gained(o, Proceeds(c, k.close)) \/ Lost(o, Proceeds(c, k.close))
  BY <1>1, <1>2, TargetIsGain, StopIsLoss
<1> QED
  BY <1>2, <1>3, <1>4 DEF o

LEMMA RefinementInit == Init => PA!Init
BY DEF Init, PA!Init

LEMMA RefinementNext ==
  TypeOK /\ [Next]_vars => [PA!Next]_(PA!accountVars)
<1> SUFFICES ASSUME TypeOK, [Next]_vars PROVE [PA!Next]_(PA!accountVars)
  OBVIOUS
<1>1. CASE AccountKept
  BY <1>1 DEF PA!accountVars, AccountKept
<1>2. ASSUME NEW k \in Klines, Buy(k) PROVE PA!Next
  BY <1>2, BuyEffect DEF PA!Next, PA!Enter
<1>3. ASSUME NEW k \in Klines, Sell(k) PROVE PA!Next
  <2>1. account.in_order /\ ~account'.in_order
    BY <1>3, SellEffect
  <2>2. PA!Exit
    BY <1>3, <2>1, SaleOutcome, SameOutcomes DEF PA!Exit
  <2> QED
    BY <2>2 DEF PA!Next
<1> QED
  BY <1>1, <1>2, <1>3, StepKinds

(* Capital is committed whole, and released as a gain of at least the      *)
(* take-profit or a loss of more than the stop-loss, net of the fee,       *)
(* whatever doubles the prices are.                                        *)
THEOREM Refinement == Spec => ImplementsPaperAccount
  BY RefinementInit, RefinementNext, TypeCorrect, PTL
  DEF Spec, PA!Spec, ImplementsPaperAccount

----------------------------------------------------------------------------
LEMMA CapitalStep ==
  ASSUME TakePct >= 1, TypeOK, [Next]_vars,
         account.old_balance \in Nat, account'.old_balance \in Nat,
         account'.old_balance < account.old_balance
  PROVE  Lost(account.old_balance, account'.old_balance)
<1>1. ~AccountKept
  BY DEF AccountKept
<1>2. ASSUME NEW k \in Klines, Buy(k) PROVE FALSE
  BY <1>2, BuyEffect
<1>3. PICK k \in Klines : Sell(k)
  BY <1>1, <1>2, StepKinds
<1>4. ~Gained(account.old_balance, account'.old_balance)
  <2> DEFINE o == account.old_balance
             c == account'.old_balance
  <2>1. o \in Nat /\ c \in Nat /\ c < o
    OBVIOUS
  <2> HIDE DEF o, c
  <2>2. ~Gained(o, c)
    BY <2>1, GainKeepsCapital
  <2> QED
    BY <2>2 DEF o, c
<1> QED
  BY <1>3, <1>4, SaleOutcome

(* With a take-profit of at least one percent, only the stop-loss makes    *)
(* the capital smaller.                                                    *)
THEOREM OnlyStopLosesCapital ==
  ASSUME TakePct >= 1
  PROVE  Spec => CapitalFallsOnlyAtStop
<1>1. TypeOK /\ [Next]_vars =>
        [LET o == account.old_balance
             c == account'.old_balance
         IN (o \in Nat /\ c \in Nat /\ c < o) => Lost(o, c)]_account
  BY CapitalStep
<1> QED
  BY <1>1, TypeCorrect, PTL DEF Spec, CapitalFallsOnlyAtStop

----------------------------------------------------------------------------
(* No position is stopped out by the candle it was bought on.  The         *)
(* strengthening says what such a position consists of.                    *)

BornInv ==
  (log # << >> /\ Head(log).status = "BUY" /\ ~tainted) =>
    LET p == Head(log).price
    IN /\ p \in Nat \ {0} /\ last_price \in Nat /\ p <= last_price
       /\ account.old_balance \in Nat
       /\ account.coins = Coins(account.old_balance, p)

(* What the stop-loss gives up, less the fee of 0.1 %, pays for at least   *)
(* one unit of coin at the price of the purchase: true of any capital that *)
(* is large against the price of one unit, as it is for doubles.           *)
StopLeavesRoom ==
  log # << >> =>
    (10 * StopPct - 1) * (account.old_balance * Unit) >= 1000 * Head(log).price

LEMMA BornBuy ==
  ASSUME TypeOK, AccountOK, OnlyBadAnswersCorrupt', NEW k \in Klines, Buy(k),
         Answered(k)
  PROVE  BornInv'
<1>1. last_price' = k.close
  BY DEF Buy, BuyAt, Sample
<1>2. log' # << >> => Head(log').price = MinPrice(k)
  BY BuyEffect
<1>3. ASSUME ~tainted'
      PROVE  /\ MinPrice(k) \in Nat \ {0} /\ MinPrice(k) <= last_price'
             /\ last_price' \in Nat
             /\ account'.old_balance \in Nat
             /\ account'.coins = Coins(account'.old_balance, MinPrice(k))
  <2>1. k \in GoodKlines
    BY <1>3 DEF Answered
  <2>2. /\ MinPrice(k) \in Nat \ {0} /\ k.close \in Nat
        /\ MinPrice(k) <= k.close
    BY <2>1, GoodPrices
  <2>3. account'.old_balance \in Nat
    BY <1>3 DEF OnlyBadAnswersCorrupt
  <2>4. account'.coins = Coins(account'.old_balance, MinPrice(k))
    BY BuyEffect DEF AccountOK
  <2> QED
    BY <1>1, <2>2, <2>3, <2>4
<1> QED
  BY <1>2, <1>3 DEF BornInv

LEMMA BornNext ==
  TypeOK /\ TypeOK' /\ AccountOK /\ OnlyBadAnswersCorrupt' /\ BornInv /\ [Next]_vars
    => BornInv'
<1> SUFFICES ASSUME TypeOK, TypeOK', AccountOK, OnlyBadAnswersCorrupt', BornInv,
                    [Next]_vars
             PROVE  BornInv'
  OBVIOUS
<1> USE DEF vars, clock, times, history
<1>1. CASE Clock \/ UNCHANGED vars
  BY <1>1 DEF Clock, BornInv
<1>2. CASE GetServerTime \/ FirstKline \/ GetSymbolPrice \/ ReadPastEnd
  BY <1>2 DEF GetServerTime, FirstKline, GetSymbolPrice, ReadPastEnd, BornInv
<1>3. CASE LoadHistory \/ LoadMalformed
  BY <1>3 DEF LoadHistory, LoadMalformed, LoadedWith, BornInv
<1>4. CASE Finish \/ NewSecond
  BY <1>4 DEF Finish, NewSecond, BornInv
<1>5. last_price \in Doubles /\ last_price' \in Doubles
  BY DEF TypeOK
<1>6. CASE Spin
  <2>1. EndIteration(now, << >>, idletime, last_price, account)
    BY <1>6 DEF Spin
  <2>2. log' # << >> => Head(log').status = "IDLE"
    BY <1>5, <2>1, QuietIteration
  <2> QED
    BY <2>2 DEF BornInv
<1>7. CASE Trade
  <2>1. PICK k \in Klines : Decide(k) /\ Answered(k)
    BY <1>7 DEF Trade, Klines, Answered
  <2>2. CASE Buy(k)
    BY <2>1, <2>2, BornBuy
  <2>3. CASE Sell(k)
    <3>1. log' # << >> => Head(log').status = "SELL"
      BY <2>3, SellEffect
    <3> QED
      BY <3>1 DEF BornInv
  <2>4. CASE Hold(k)
    <3>1. EndIteration(curtime, << >>, idletime, last_price', account)
      BY <2>4 DEF Hold
    <3>2. log' # << >> => Head(log').status = "IDLE"
      BY <1>5, <3>1, QuietIteration
    <3> QED
      BY <3>2 DEF BornInv
  <2> QED
    BY <2>1, <2>2, <2>3, <2>4 DEF Decide
<1> QED
  BY <1>1, <1>2, <1>3, <1>4, <1>6, <1>7 DEF Next, Startup, Loop, Stopped

(* As long as the stop-loss leaves room for the fee and the rounding, a    *)
(* position that is bought at the lower end of the body of a candle is not *)
(* stopped out by the close of that candle (GB_RSIStrategy.cpp:86, 93).    *)
THEOREM NeverBornStopped == Spec => [](StopLeavesRoom => NotBornStopped)
<1>1. Init => BornInv
  BY DEF Init, BornInv
<1>2. Spec => []BornInv
  BY <1>1, BornNext, TypeCorrect, MoneyInOnePlace, FiniteWithoutBadAnswers, PTL
  DEF Spec
<1>3. BornInv => (StopLeavesRoom => NotBornStopped)
  <2> SUFFICES ASSUME BornInv, StopLeavesRoom, log # << >>,
                      Head(log).status = "BUY", ~tainted
               PROVE  ~HitsStop(account.coins, last_price, account.old_balance)
    BY DEF NotBornStopped
  <2> QED
    BY BoughtAboveStop DEF BornInv, StopLeavesRoom
<1> QED
  BY <1>2, <1>3, PTL
==============================================================================
