----------------------------- MODULE RSIStrategy -----------------------------
(***************************************************************************)
(* GB_RSIStrategy::Run, the thread of one bot: it learns the server time,  *)
(* a history of candles, one candle and the price of its symbol, and then  *)
(* spins.  In every iteration it reads the clock; when the second has      *)
(* changed it fetches a candle, recomputes the RSI if a timeframe has      *)
(* passed, and buys, sells or holds on a paper account; and it logs the    *)
(* account when log_time seconds have passed.                              *)
(*                                                                         *)
(* A fetch is two steps, so that the clock moves while the network         *)
(* answers.  The answer may be unusable (an error object, a page of HTML): *)
(* Kline swallows the exception and leaves the prices of the candle        *)
(* uninitialised.  Such a price is any member of Memory: an older quote,   *)
(* or a negative, infinite or NaN double.  An element that ends early is   *)
(* read past its end, which may end the process; and so does the exception *)
(* of a log that cannot be written.                                        *)
(***************************************************************************)
EXTENDS Money, TechnicalAnalysis, Candles

CONSTANTS
  N,             \* the period of the RSI, 14 in the code
  Timeframe,     \* seconds between two computations of the RSI
  LogTime,       \* log_time, seconds between two IDLE records
  StartBalance,  \* the paper balance, 1000 in the code
  StartTime,     \* the clock when the thread starts
  Earliest, Horizon,  \* bounds on the clock
  Advances,      \* by how much the clock moves on in a step
  Setbacks,      \* by how much it may be set back
  MaxSetbacks    \* bound on how often it is set back

ASSUME StrategyAssumption ==
  /\ Prices \subseteq Nat \ {0} /\ Prices # {}
  /\ Junk \subseteq Doubles
  /\ N \in Nat \ {0}
  /\ Timeframe \in Nat \ {0}
  /\ LogTime \in Nat
  /\ StartBalance \in Nat
  /\ Earliest \in Nat /\ StartTime \in Nat /\ Horizon \in Nat
  /\ LogTime <= Earliest /\ Earliest <= StartTime /\ StartTime <= Horizon
  /\ Advances \subseteq Nat /\ Setbacks \subseteq Nat
  /\ MaxSetbacks \in Nat

VARIABLES
  pc,          \* what the thread is about to do
  now,         \* the system clock, in seconds
  setbacks,    \* how often it has been set back
  curtime, lasttime, idletime, updatetime,
  vec,         \* the last N + 1 closes: all that RSI ever looks at
  oversold,    \* rsi14 < 0.3
  account,     \* in_order, balance, coins, old_balance
  last_price,
  log,         \* the records that the last iteration wrote, while it lasted
  is_finished, \* *is_finished_, the strategy's own copy of the flag
  booked,      \* history: the sum of the "diff" of all SELL records
  tainted,     \* history: an unusable answer has been taken for a candle
  unseen       \* history: candles that joined vec since the last RSI

clock == <<now, setbacks>>
times == <<curtime, lasttime, idletime, updatetime>>
history == <<booked, tainted, unseen>>
vars == <<pc, clock, times, vec, oversold, account, last_price, log,
          is_finished, history>>

PCs == {"server_time", "history", "first_kline", "symbol_price",
        "loop", "fetch", "finished", "terminated"}

Accounts == [in_order : BOOLEAN, balance : Doubles, coins : Doubles,
             old_balance : Doubles]

Records == [status : {"BUY", "SELL", "IDLE"}, price : Doubles,
            balance : Doubles, coins : Doubles, old_balance : Doubles]

Window(closes) ==
  IF Len(closes) > N + 1 THEN Tail(closes) ELSE closes

----------------------------------------------------------------------------
(* The comparisons count() >= time_map.at(...)/sec and count() >= log_time *)
(* convert a negative count to unsigned: it exceeds every period.          *)

ElapsedSigned(from, to, period) == to - from >= period

ElapsedStrict(from, to, period) == to - from < 0 \/ to - from > period

Elapsed(from, to, period) == to - from < 0 \/ to - from >= period

(* if(rsi14 < 0.3) ... : the account after a buy at p                      *)

BoughtKeepingBalance(a, p) ==
  [a EXCEPT !.in_order = TRUE, !.coins = Coins(a.balance, p)]

Bought(a, p) ==
  [a EXCEPT !.in_order = TRUE,
            !.coins = Coins(a.balance, p),
            !.balance = 0]

(* ... and after a sale at p; old_balance is set once the sale is recorded *)

SoldKeepingOldBalance(a, p) ==
  [a EXCEPT !.in_order = FALSE,
            !.balance = Proceeds(a.coins, p),
            !.coins = 0]

Sold(a, p) ==
  [a EXCEPT !.in_order = FALSE,
            !.balance = Proceeds(a.coins, p),
            !.coins = 0,
            !.old_balance = Proceeds(a.coins, p)]

Record(status, p, a) ==
  [status |-> status, price |-> p, balance |-> a.balance,
   coins |-> a.coins, old_balance |-> a.old_balance]

(* logger_->set_log_data(...) before old_balance = balance                 *)
SaleRecordAfterReset(p, a) == Record("SELL", p, Sold(a, p))

SaleRecord(p, a) ==
  Record("SELL", p, [Sold(a, p) EXCEPT !.old_balance = a.old_balance])

(* "diff" of a SELL record: what the log says the round trip earned        *)
Diff(r) ==
  IF {r.balance, r.old_balance} \subseteq Int
  THEN r.balance - r.old_balance ELSE 0

(* What the records of an iteration, the first of which may be a SELL      *)
(* record, say that it earned.                                             *)
Earned(records) ==
  IF records # << >> /\ Head(records).status = "SELL" THEN Diff(Head(records))
  ELSE 0

----------------------------------------------------------------------------
(* rsi14 < 0.3 after RSI(14, vec).  RSI reads data[-1] when there are      *)
(* exactly n candles, and one past the end of "down" once that vector has  *)
(* an element.  What is there may be any double, so that the comparison    *)
(* comes out either way; and so it does for closes that memory supplied.   *)
(* With fewer than n candles RSI looks at none.                            *)

RSIDecided(closes) ==
  \/ Len(closes) < N
  \/ /\ Len(closes) > N
     /\ closes \in Seq(Prices)
     /\ EMACalls(N, closes, 0).down.data = << >>

Signals(closes) ==
  IF RSIDecided(closes)
  THEN {Oversold(N, closes, [before |-> 0, up |-> 0, down |-> 0])}
  ELSE BOOLEAN

----------------------------------------------------------------------------
Init ==
  /\ pc = "server_time"
  /\ now = StartTime /\ setbacks = 0
  /\ curtime = 0 /\ lasttime = 0 /\ idletime = 0 /\ updatetime = 0
  /\ vec = << >>
  /\ oversold = FALSE
  /\ account = [in_order |-> FALSE, balance |-> StartBalance, coins |-> 0,
                old_balance |-> StartBalance]
  /\ last_price = 0
  /\ log = << >>
  /\ is_finished \in BOOLEAN
  /\ booked = 0
  /\ tainted = FALSE
  /\ unseen = 0

(* The environment: the clock moves on, or is set back.                    *)
Clock ==
  /\ \/ /\ \E s \in Advances : now' = now + s
        /\ UNCHANGED setbacks
     \/ /\ setbacks < MaxSetbacks
        /\ \E s \in Setbacks : now' = now - s
        /\ setbacks' = setbacks + 1
  /\ now' \in Earliest .. Horizon
  /\ UNCHANGED <<pc, times, vec, oversold, account, last_price, log,
                 is_finished, history>>

(* string_to_ptree(...).get<ulong>("serverTime") throws when the answer    *)
(* has none, and nothing catches: the process terminates.                  *)
GetServerTime ==
  /\ pc = "server_time"
  /\ pc' \in {"history", "terminated"}
  /\ UNCHANGED <<clock, times, vec, oversold, account, last_price, log,
                 is_finished, history>>

(* The first computation of the RSI, on whatever the history was.          *)
LoadedWith(closes) ==
  /\ pc = "history"
  /\ pc' = "first_kline"
  /\ vec' = closes
  /\ oversold' \in Signals(closes)
  /\ UNCHANGED <<clock, times, account, last_price, log, is_finished, booked,
                 unseen>>

(* The answer is an array of candles: many, few for a young symbol, or     *)
(* none, also when the answer is not JSON.                                 *)
LoadHistory ==
  /\ \E closes \in BoundedSeq(Prices, N + 1) : LoadedWith(closes)
  /\ UNCHANGED tainted

(* Some elements are not candles, or all: the members "code" and "msg" of  *)
(* an error object, for one.  Their prices are what memory holds.          *)
LoadMalformed ==
  /\ \E closes \in BoundedSeq(Memory, N + 1) : LoadedWith(closes)
  /\ tainted' = TRUE

(* A candle's element ends before its fields have been read, or is a leaf  *)
(* without any: Kline reads on past its end, and the process may be gone.  *)
ReadPastEnd ==
  /\ pc \in {"history", "first_kline", "fetch"}
  /\ \E a \in Answers : IsUndefined(a)
  /\ pc' = "terminated"
  /\ UNCHANGED <<clock, times, vec, oversold, account, last_price, log,
                 is_finished, history>>

(* last_kline is overwritten before it is read; the clock is.              *)
FirstKline ==
  /\ pc = "first_kline"
  /\ pc' = "symbol_price"
  /\ lasttime' = now
  /\ idletime' = now
  /\ updatetime' = now
  /\ UNCHANGED <<clock, curtime, vec, oversold, account, last_price, log,
                 is_finished, history>>

(* get<double>("price") throws when the answer has none.  max_price is     *)
(* never used in a decision.                                               *)
GetSymbolPrice ==
  /\ pc = "symbol_price"
  /\ pc' \in {"loop", "terminated"}
  /\ UNCHANGED <<clock, times, vec, oversold, account, last_price, log,
                 is_finished, history>>

----------------------------------------------------------------------------
(* if((curtime-lasttime).count() >= 1), at clock reading t; signed         *)

Ticked(t) == t - lasttime >= 1

(* The records of an iteration at clock reading t: those of its trade, and *)
(* the IDLE record, if one is due since idle.                              *)
IdleDue(t, idle) == Elapsed(idle, t, LogTime)

DueIdleFirst(t, records, idle, price, a) ==
  IF IdleDue(t, idle) THEN <<Record("IDLE", price, a)>> \o records ELSE records

DueAgain(t, records, idle, price, a) ==    \* those of the last one, too
  log \o IF IdleDue(t, idle) THEN Append(records, Record("IDLE", price, a))
         ELSE records

Due(t, records, idle, price, a) ==
  IF IdleDue(t, idle) THEN Append(records, Record("IDLE", price, a)) ELSE records

(* logger_->output throws instead of writing one of them.  Nothing catches *)
(* what it throws: the process terminates in the middle of the iteration.  *)
OutputThrows(due, idle) ==
  /\ \E written \in 0 .. Len(due) - 1 : log' = SubSeq(due, 1, written)
  /\ idletime' = idle
  /\ pc' = "terminated"
  /\ UNCHANGED lasttime

(* The end of every iteration: its records are written, or one is not.     *)
EndIteration(t, records, idle, price, a) ==
  LET due == Due(t, records, idle, price, a)
  IN /\ \/ /\ log' = due
           /\ idletime' = IF IdleDue(t, idle) THEN t ELSE idle
           /\ lasttime' = t
           /\ pc' = "loop"
        \/ OutputThrows(due, idle)
     /\ booked' = booked + Earned(log')

(* while(!*is_finished_)                                                   *)
Finish ==
  /\ pc = "loop"
  /\ is_finished
  /\ pc' = "finished"
  /\ UNCHANGED <<clock, times, vec, oversold, account, last_price, log,
                 is_finished, history>>

(* An iteration within the same second, or after the clock was set back.   *)
Spin ==
  /\ pc = "loop"
  /\ ~is_finished
  /\ ~Ticked(now)
  /\ curtime' = now
  /\ EndIteration(now, << >>, idletime, last_price, account)
  /\ UNCHANGED <<clock, updatetime, vec, oversold, account, last_price,
                 is_finished, tainted, unseen>>

(* An iteration in a new second: api_->get_kline is called.                *)
NewSecond ==
  /\ pc = "loop"
  /\ ~is_finished
  /\ Ticked(now)
  /\ curtime' = now
  /\ pc' = "fetch"
  /\ UNCHANGED <<clock, lasttime, idletime, updatetime, vec, oversold, account,
                 last_price, log, is_finished, history>>

(* The answer k has arrived: it joins the history, and the RSI is brought  *)
(* up to date when a timeframe has passed on the clock as it was read      *)
(* before the call.                                                        *)
Sample(k) ==
  /\ pc = "fetch"
  /\ last_price' = k.close
  /\ vec' = Window(Append(vec, k.close))
  /\ IF Elapsed(updatetime, curtime, Timeframe)
     THEN /\ oversold' \in Signals(vec')
          /\ updatetime' = curtime
          /\ unseen' = 0
     ELSE /\ UNCHANGED <<oversold, updatetime>>
          /\ unseen' = unseen + 1
  /\ UNCHANGED <<clock, curtime, is_finished>>

BuyAt(k, p) ==
  /\ Sample(k)
  /\ ~account.in_order
  /\ oversold'
  /\ account' = Bought(account, p)
  /\ EndIteration(curtime, <<Record("BUY", p, account')>>, 0,
                  last_price', account')

BuyAtLastPrice(k) == BuyAt(k, last_price)

Buy(k) == BuyAt(k, MinPrice(k))

SellDue(a, price) ==
  /\ a.in_order
  /\ \/ HitsTarget(a.coins, price, a.old_balance)
     \/ HitsStop(a.coins, price, a.old_balance)

Sell(k) ==
  /\ Sample(k)
  /\ SellDue(account, k.close)
  /\ account' = Sold(account, k.close)
  /\ EndIteration(curtime, <<SaleRecord(k.close, account)>>, 0,
                  last_price', account')

Hold(k) ==
  /\ Sample(k)
  /\ IF account.in_order THEN ~SellDue(account, k.close) ELSE ~oversold'
  /\ EndIteration(curtime, << >>, idletime, last_price', account)
  /\ UNCHANGED account

Decide(k) == Buy(k) \/ Sell(k) \/ Hold(k)

Trade ==
  \/ /\ \E k \in GoodKlines : Decide(k)
     /\ UNCHANGED tainted
  \/ /\ \E k \in BadKlines : Decide(k)
     /\ tainted' = TRUE

(* The thread has returned, or the process is gone.                        *)
Stopped ==
  /\ pc \in {"finished", "terminated"}
  /\ UNCHANGED vars

Startup ==
  \/ GetServerTime
  \/ LoadHistory
  \/ LoadMalformed
  \/ FirstKline
  \/ GetSymbolPrice

Loop == Finish \/ Spin \/ NewSecond \/ Trade

Next == Clock \/ Startup \/ Loop \/ ReadPastEnd \/ Stopped

Spec == Init /\ [][Next]_vars

(* The thread is never blocked for good: the operating system runs it, and *)
(* binance_api::call retries until the exchange answers.                   *)
Fairness == WF_vars(Startup) /\ WF_vars(Loop)

FairSpec == Spec /\ Fairness

----------------------------------------------------------------------------
(* Types: the variables of the thread, while it trades and before.         *)
TypeOK ==
  /\ pc \in PCs
  /\ now \in Earliest .. Horizon /\ setbacks \in 0 .. MaxSetbacks
  /\ {curtime, lasttime, idletime, updatetime} \subseteq 0 .. Horizon
  /\ vec \in Seq(Memory) /\ Len(vec) <= N + 1
  /\ oversold \in BOOLEAN
  /\ account \in Accounts
  /\ last_price \in Doubles
  /\ log \in Seq(Records) /\ Len(log) <= 2
  /\ is_finished \in BOOLEAN
  /\ booked \in Int
  /\ tainted \in BOOLEAN
  /\ unseen \in Nat

(* Money is in one place: all of it in coins, or all of it in the balance  *)
(* and then old_balance has caught up.  About the four locals that         *)
(* GB_RSIStrategy.cpp:84-100 assigns one by one.                           *)
AccountOK ==
  IF account.in_order THEN account.balance = 0
  ELSE account.coins = 0 /\ account.old_balance = account.balance

(* The log tells the truth about the profit: as long as every answer was a *)
(* candle, the "diff"s of the SELL records add up to what the account has  *)
(* gained since the start, unless the process ended before a sale could be *)
(* recorded.  About the order of lines 96-101: the record is filled after  *)
(* balance has changed and before old_balance does.                        *)
BooksBalance ==
  (~tainted /\ pc # "terminated")
    => booked = account.old_balance - StartBalance

(* Whatever an iteration logs ends with an IDLE record that shows the      *)
(* account as the iteration leaves it: a trade resets idletime to 0, so    *)
(* its record is followed by an IDLE record at once, if the log can be     *)
(* written at all.                                                         *)
LogShowsAccount ==
  (log # << >> /\ pc # "terminated") =>
    Last(log) = Record("IDLE", last_price, account)

(* Buying at the lower end of a candle's body never opens a position that  *)
(* the close of the same candle would already stop out.                    *)
(* About Kline::get_min_price and GB_RSIStrategy.cpp:86, 93.               *)
NotBornStopped ==
  (log # << >> /\ Head(log).status = "BUY" /\ ~tainted) =>
    ~HitsStop(account.coins, last_price, account.old_balance)

(* The RSI of a decision misses few of the candles that were fetched since *)
(* it was computed: fewer than a timeframe has seconds, and each time the  *)
(* clock is set back as many more at most.  Several iterations share one   *)
(* RSI, each with a candle of a second of its own, and a clock that is     *)
(* back before updatetime brings a new one.  How old the RSI is on the     *)
(* wall has no bound: a fetch may take any time.                           *)
(* About GB_RSIStrategy.cpp:45-79.                                         *)
RsiMissesFew == unseen <= (setbacks + 1) * Timeframe - 1

PA == INSTANCE PaperAccount WITH
        position <- IF account.in_order THEN "coins" ELSE "cash",
        capital  <- account.old_balance

(* The thread implements the paper account: capital is committed whole, is *)
(* untouched while it is in coins, and every sale is a gain of at least    *)
(* the take-profit or a loss of more than the stop-loss.                   *)
ImplementsPaperAccount == PA!Spec

(* Net of the fee, only a stop-loss makes the capital smaller: a sale for  *)
(* the take-profit never does.                                             *)
CapitalFallsOnlyAtStop ==
  [][LET o == account.old_balance
         c == account'.old_balance
     IN (o \in Nat /\ c \in Nat /\ c < o) => Lost(o, c)]_account

(* No NaN ever reaches the capital, whatever memory supplied for a price   *)
(* and however amounts became infinite or negative: 0/0, Inf * 0 and NaN   *)
(* itself end up in the coins only, and a position worth NaN satisfies     *)
(* neither comparison of line 93 and is never sold.                        *)
CapitalIsANumber == account.balance # NaN /\ account.old_balance # NaN

(* Nothing but an unusable answer corrupts the account: as long as every   *)
(* answer was a candle, no amount is negative, infinite or NaN, although   *)
(* last_price and the price of the last candle start as 0.                 *)
OnlyBadAnswersCorrupt ==
  ~tainted => {account.balance, account.coins, account.old_balance} \subseteq Nat

(* When log_time has passed since the last IDLE record, one is written,    *)
(* stamped with that second or a later one, although the second is read    *)
(* before a fetch that may take any time: unless the process ends, or the  *)
(* clock is set back first.                                                *)
Heartbeat ==
  \A t \in Earliest + LogTime .. Horizon :
    (pc = "loop" /\ ~is_finished /\ now = t /\ t >= idletime + LogTime)
      ~> (idletime >= t \/ pc = "terminated" \/ now < t)

(* When the clock is set back before the last IDLE record, the log does    *)
(* not fall silent until the clock has caught up: the next iteration       *)
(* writes a record, and counts from there.  About the conversion to        *)
(* unsigned in line 105, without which the negative count would be small.  *)
SetbackIsLogged ==
  \A t \in Earliest .. Horizon - 1 :
    (pc = "loop" /\ ~is_finished /\ now = t /\ t < idletime)
      ~> (idletime <= t \/ pc = "terminated" \/ now > t)
==============================================================================
