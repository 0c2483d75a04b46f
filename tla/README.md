# GodBot in TLA+

GodBot is a trading bot for the Binance spot market: a console program with one
bot thread that samples the price of one symbol, decides with an RSI indicator
when to buy and sell, keeps a *paper* account (no order is placed by the
program) and writes a JSON log of it. This directory specifies the program,
checks the specification with TLC and proves its main safety properties with
TLAPS. Paths below are relative to the repository root, `src/`.

## 1. The system

| Component | Code | State | Operations | Talks to |
|---|---|---|---|---|
| Command loop | `src/main.cpp` | options, line buffer, state of `cin` | parse options, start the bot thread, `exit`, `logs`, `cfg`, `version` | bot: direct calls from the main thread |
| Bot lifecycle | `src/GodBot.cpp`, `hpp/base_bot.hpp` | `config_`, `api_`, `logger_`, `strategy_`, `is_finish`, `is_pause`, `is_stdlog`, `id_`, `count_`, `tag_` | `UploadConfig`, `Run`, `Stop`, `Pause`, `Resume`, `SwitchLog` | strategy: fills in its members, then `strategy_->Run()` on the bot thread |
| RSI strategy | `src/GB_RSIStrategy.cpp` | history of candles, RSI, paper account, four clock readings | `Run`: startup calls, then a busy loop | API (blocking calls), indicators, logger, the shared flag `is_finished_` |
| Indicators | `hpp/ta.hpp` | none | `accurize`, `EMA`, `RSI` | called by the strategy |
| Configuration | `src/main.cpp`, `src/GodBot.cpp`, `src/base_api.cpp` | options, the entries read from two files | `options_handler`, `UploadConfig`, `key_by_value` | called by main and by the bot thread |
| Candles | `src/Kline.cpp` | the members of one candle | parse an answer, assign, compare, minimum of open and close | called by the strategy |
| Trade log | `src/GB_Logger.cpp`, `src/GB_LogData.cpp` | output stream and its buffer, folder, the figures of one record | set folder and file, set figures, write a record | called by bot and strategy |
| Binance API | `src/binance_api.cpp`, `src/base_api.cpp` | keys, configuration, connection | `call` with its retry loop, ten operations | HTTP connection |
| HTTP connection | `hpp/connection.hpp`, `hpp/curl_object.hpp` | the process-wide curl handle and the options set on it, receive buffer | `request`, `get_response`, `reset` | libcurl, the exchange |
| Request signing | `hpp/hmac_sha256.hpp`, `hpp/hmac_sha512.hpp` | the digest | `hex_digest` | OpenSSL |
| Exmo API | `hpp/exmo_api.hpp` | keys, a nonce | `call` | HTTP connection; no part of the program includes it |
| Simple strategy | `*SimpleStrategy*` | | commented out | |

What is hard in it, and what would make each part correct:

* **Two threads and a flag.** `main` writes `is_finish`, the strategy reads a
  *copy* of it that the bot thread takes once. Right would be: a bot ends only
  when told to, it ends when told to, and it outlives its thread.
* **Partial failure of the configuration.** One `try` block configures the
  strategy, and the strategy is run whether or not it got through. Right: no
  iteration of the trading loop with a member that was not assigned.
* **One loop for everything.** Fetching blocks the clock, the RSI and the log.
  Right: a decision misses fewer candles than the timeframe has seconds, and an
  IDLE record comes when one is due, also when the clock is set back and signed
  differences are compared with unsigned periods. How old the RSI is on the wall
  has no bound: the second is read before a fetch that may take any time.
* **One position in several locals**, recorded between two of their assignments.
  Right: money is in one place, the log adds up to the account, the account
  does what a take-profit/stop-loss account promises.
* **Errors taken for data.** Exceptions of the parser are swallowed, so an error
  answer becomes a candle with uninitialised prices: an older candle's, or any
  double at all. Right: nothing else may ever make an amount negative, infinite or
  not a number, and no NaN reaches the capital.
* **Rounding and indexing** in the indicators: recursion that rounds at every
  level, sizes that wrap, positions past the end.
* **Logs that outlive the process.** Streams are buffered and never closed, folders
  may be missing and disks full, and nothing catches what a failed stream
  throws; a file is named by the clock, and opening it empties what has that name.
  Right: a log file is at any time the list of what was logged, a bot
  that goes on has logged everything, and no restart costs an older log.
* **Tables and lambdas** of the configuration: a search that returns in its first
  iteration. Right: the strategy gets the timeframe that is configured. It does not.
* **What bots and runs share**: a count behind the ids, a generator that is seeded with the
  time, a nonce that is taken from the clock. Right: ids are unique, calls stay in
  order over restarts, and it is known under which conditions.
* **Retries over an unreliable network** with state that is shared between
  requests. Right: an order is executed at most once, a request goes out as it
  was asked for, an answer comes back whole, and what the caller was told stays
  true.

`PROJECT.json` lists each of these at its line, under `hazards`, with the
property that would catch it.

## 2. The modules

```
PaperAccount   abstract account ............. implemented by RSIStrategy
OrderChannel   abstract order channel ....... implemented by BinanceApi
Doubles        the arithmetic of the hardware, used by Money and Candles
Money          amounts, fees, thresholds  \
TechnicalAnalysis  EMA, RSI                >-- RSIStrategy   the strategy thread
Candles        answers and their candles  /
GodBot         main thread and bot thread (RSIStrategy is its loop, abstracted)
BotConfig      options and files behind GodBot's UploadConfig
BotRegistry    ids, count and tags of several bots
TradeLog       log files over several runs
BinanceApi     calls, retries, the curl handle, network, exchange
ExmoApi        nonces and signatures of a second exchange, over restarts
Signing        the text of a signature, used by ExmoApi

MC...          instances for TLC: TechnicalAnalysis, RSIStrategy, GodBot (with
               BotConfig), BotRegistry, BinanceApi, ExmoApi
...Proofs      Indicator (TechnicalAnalysis), Money, RSIStrategy, GodBot (with
               BotConfig), TradeLog, BotRegistry, BinanceApi, ExmoApi (with
               Signing)
```

| Module | Models | Correspondence |
|---|---|---|
| `TechnicalAnalysis` | `accurize`, `EMA`, `RSI` | `EMAStep` is one level of the recursion, `EMA` is the recursion, as a function on positions, with what lies past the end of the vector as a parameter; `UpDown` is the loop over the moves of the window, one `Push` each; `Oversold` is `RSI(n, data) < 0.3`, the only use of the RSI. `EMAOfKlines` and `EMAOfLast` are the overloads on candles. |
| `Candles` | `Kline`, `string_to_ptree` | `Answers` classifies what the exchange may send by how many fields can be read and how the reading ends; `ParseStr` says which members are assigned and which stay. A member that stays holds `Memory`: the temporary of `GB_RSIStrategy.cpp:66` has a slot on the stack that may still hold the previous candle, so any quote, or any double of `Junk`. `GoodKlines` and `BadKlines` are the two members the strategy looks at, for answers whose close was read and for the others. `IsUndefined` marks the answers that are read past the end of an element. |
| `Money` | the expressions of the buy and sell branches | `Coins` and `Proceeds` with the 0.1 % fee, `HitsTarget` and `HitsStop` the comparisons of line 93, on values that may be negative, infinite or NaN: `Doubles` has what the hardware makes of those. |
| `PaperAccount` | nothing in particular: the promise | capital goes into coins whole, and comes back as a gain of at least the take-profit or a loss of more than the stop-loss, net of the fee. |
| `RSIStrategy` | `GB_RSIStrategy::Run` | `pc` is the place in the function. Every call to the exchange is a step of its own; `NewSecond` (the clock is read, the call is made) and `Trade` (the answer is in: sample, RSI, buy/sell/hold, log, `lasttime`) are apart so that the clock moves in between. `Spin` is an iteration in an old second. `EndIteration` writes the records that are `Due`, or `logger_->output` throws at one of them and the process is gone (`OutputThrows`); `ReadPastEnd` is the other way an answer may end it. `LoadMalformed` is a history some of whose elements are not candles. `Clock` is the environment. |
| `GodBot` | `main`, `GodBot::UploadConfig`, `Run`, `Stop`, `SwitchLog` | `ConfigLines` are the lines of the `try` block with the entries each needs and the members each assigns; `ConfigureLine` and `ConfigureThrows` walk through it. The strategy is reduced to its startup, its loop test and an iteration, which may end the process. |
| `BinanceApi` | `binance_api`, `http::connection`, `curl_object` | `Ask` is an operation up to the loop of `call`, `Request` is `connection::request` up to the transfer, `Fail`, `Retry` and `Answered` are the ways on. `handle` is the set of options on the shared handle, `OnTheWire` what libcurl makes of them. `Arrive` is the exchange. |
| `OrderChannel` | nothing in particular: the promise | a call is carried out at most once, while it lasts, and "accepted" is said only of an order that was. "Rejected" promises nothing: see the hazard at `binance_api.cpp:58`. |
| `BotConfig` | `options_handler`, `main` up to the bot, `UploadConfig`, `key_by_value` | No states of its own: one thread computes it before the others start. `Inputs` is what a run finds, `vm` the variables map, whose first value that is given stays, `tree` the list of entries, of which `Get` takes the first. `MCGodBot` checks it at the step `UploadConfig` of `GodBot`, for every input. |
| `BotRegistry` | the constructor and destructor of `GodBot`, `SetTag`, `GenerateTag`, `Count` | `bots` are those that live, oldest first; `scoped` says whether the caller destroys the youngest first, as the locals of a function are. `rand` is the seed of the C library's generator. The implicit copy constructor, which would not count, is not used by the program and not modelled. |
| `TradeLog` | `GB_Logger`, `GB_LogData::write_log` | a file is its content on the disk, what its stream has yet to flush, whether the stream is good, and its `path`, a folder and the clock when it was opened. `SetLogFile` opens a path and empties what has it. `Output` writes a record with its flush, or fails, which ends the process; `Die` is any other end of it, `Restart` a new run, a millisecond or more later. `Tick` and `SetBack` move the clock. |
| `ExmoApi` | `exmo_api` | `Call` takes the next nonce and starts a transfer, whose copy may arrive at any later time, or never. `FirstNonce` is the clock at construction. `Hmac` is the digest that OpenSSL computes for each nonce. |
| `Signing` | `hex_digest` of both classes | `Collected` is the loop of the constructor; a digest is a sequence of bytes, a text one of indices into `hex_chars`; the signed `char` in between is kept. |

Definitions that are not used by a specification but stand before one with a
similar name (`ElapsedSigned`, `RequestRestamped`, ...) are its mutants: plausible
slips, each of which makes a property fail.

### Abstractions

* **Numbers.** A double is a whole number, in units of `1/Grid` for prices and
  `1/Unit` for coins, or one of `Inf`, `NegInf` and `NaN`; quotients round down where
  the code rounds to 53 bits. The sign of a zero and the overflow of a finite result
  are not kept. The content of uninitialised memory is any quote or any
  member of `Junk`, which the proofs take to be any set of doubles.
* **Reads past the arrays of `RSI`** may yield any double as well. `Signals` lets
  the comparison with 0.3 come out either way where such a read, or a close from memory, enters
  it; only a window without falls, and a history that is too short, are decided by the quotes.
* **History.** Only the last N + 1 closes are kept: `RSI` looks at no others
  (`SignalIsOneSidedWindow` is about exactly that window).
* **Dead locals** of `Run` are left out: `starttime`, `idle`, and `max_price`,
  which is maintained but decides nothing.
* **Messages.** The parameters of a request are the number of its call, which
  entries it has, and its timestamp. The signatures
  of `BinanceApi` are right by construction; those of `ExmoApi` are computed. The
  clock of the exchange is the clock of the bot.
* **Sleep** lasts its ten seconds: signals are not modelled.
* **Log records** are told apart by their side and one figure, and a log's name by its
  folder and the clock; the clock moves on by a millisecond at least while a process starts. A
  run names one log (`GodBot::Run` does), so two of one run never have one name. The stream of a file
  flushes with each record (`std::endl` in `write_json`) and buffers the separator.
  A stream that fails may have put any part of its buffer on the disk.
* **Entries** of a configuration file are those the model's properties tell apart:
  the two paths and the timeframe. Everything else is in `GodBot`.
* **Other exchanges.** The one behind `exmo_api` refuses a nonce that is not above
  all it has taken.
* **curl** transfers a request at most once per `curl_easy_perform`.

## 3. The runs

| Run | Module, config | States | What it shows |
|---|---|---|---|
| `indicators` | `MCTechnicalAnalysis`, `ta.cfg` | 27,993 | EMA and RSI against reference definitions for every vector of at most five closes and every content of the memory they read outside it: rounding does not accumulate over the recursion, the average stays within the closes, "oversold" means a one-sided window, a history that is too short or quotes below half of the three-decimal grid. |
| `ema_position` | same, `ta_position.cfg` | | *Violation.* RSI calls EMA one past the end of its vector. |
| `trading` | `MCRSIStrategy`, `trading.cfg` | 99,566 | The thread on answers that are whole, cut short, malformed or errors, with a log that may fail at any record and a clock that is set back once: account, log, the candles the RSI misses, and the refinement of `PaperAccount`. Unusable answers alone make amounts negative, infinite or NaN, the capital is never NaN, and as long as the process lives the log gets its IDLE records, also after the clock was set back. |
| `lifecycle` | `MCGodBot`, `godbot.cfg` | 9,289 | Every subset of configuration entries, every place where the configuration can fail, commands at every moment; and, when the configuration is uploaded, every combination of options over every content of three files (186,624): which files are read, whose entry counts. |
| `timeframe` | same, `timeframe.cfg` | | *Violation.* Every timeframe but `1s` becomes a minute. |
| `exit` | `GodBot`, `exit.cfg` | | *Violation.* After `exit` a trading bot trades for ever. |
| `registry` | `MCBotRegistry`, `registry.cfg` | 1,382 | Up to three bots at a time, created, tagged and destroyed in every order: ids tell bots apart as long as the youngest goes first. |
| `log` | `TradeLog`, `log.cfg` | 3,829,696 | Two files in any number of runs, with streams that fail at any record, processes that die at any step and a clock that moves on or back at any time: a file shows what was logged to it, a running bot has no gaps, and a log is emptied by a later one only if the clock was set back. |
| `calls` | `MCBinanceApi`, `api.cfg` | 635,980 | Every operation and order type, two calls, three failures: at most once, as asked, whole, final, the refinement of `OrderChannel`, and an end once the network stops failing. |
| `exmo` | `MCExmoApi`, `exmo.cfg` | 41,456 | Four calls over any number of runs, their copies arriving late: calls stay in order as long as no run makes more of them than it lasts seconds, and each carries the digest for its own nonce. |
| `query` | `MCBinanceApi`, `query.cfg` | | *Violation.* An order is queried with the request that opens one. |
| `order_types` | `MCBinanceApi`, `order_types.cfg` | | *Violation.* A stop-loss-limit order cannot be sent. |

### Bounds, and why they are enough

* `indicators`: periods 2 to 4 against up to 5 closes gives histories shorter
  than, equal to and longer than the window. Prices are in units of 0.0001,
  ten to a step of `accurize`: 3 is below half a step, 27 between two steps, and the
  others on the grid, close together (4000, 4010) and far apart (100, 4000), so that
  rounding goes both ways.
* `trading`: two quotes give a sale at the target (94 to 102), at the stop (102 to
  94) and a hold. Besides them memory holds 0, which divides to infinity, -100, which
  makes amounts negative and infinity negative, and NaN. With a period of one the window is full after
  two candles and slides; the run `indicators` has the longer periods. Timeframe and
  `log_time` of two seconds are due in some seconds and
  not in others. One set-back of two seconds can lead below every stored reading, and
  the clock, at its `Earliest`, is then behind the last record.
  Up to `Horizon` there is room for a buy, a sale and a second buy.
* `lifecycle`: the state space is finite. Three files, so that each option can name the
  default, the file of the other option or a third, each with a timeframe of its own.
* `calls`: two calls, because the handle, the receive buffer and late copies carry
  over from one call to the next. Three failures let one call be
  repeated three times, or both be repeated. `RetryDelay` 3 against
  `RecvWindow` 2 keeps the order of the real 10 s and 5 s at the smallest
  distance; `Horizon` bounds the time that passes outside `sleep`.
* `registry`: three bots leave a younger and an older neighbour to the one that is
  destroyed; three seconds with a generator that gives two of them the same tag.
* `log`: two records in a file are a separator between them and one pending; two files
  are an open stream besides the one in use, or one of an earlier run. Two readings of the
  clock give two logs one name or different ones. `write_log` looks at the side only for
  the words, so two sides are enough.
* `exmo`: four calls and five seconds let a run fall behind the clock, keep up with
  it and run ahead of it. The condition `paced` under which the properties
  hold is met in most states, and not in all. The digests are of 64 bytes, and those of
  four nonces in a row hold every byte there is; `CallsAreSigned` covers all digests.
* `CHECK_DEADLOCK FALSE` in the API configs: the caller may stop calling.
  In the other modules stopping is a step that changes nothing.

### Fairness, and why the code justifies it

* `RSIStrategy`: weak fairness of the thread. It is a busy loop that waits for
  nothing but calls, and `binance_api::call` repeats a call until it is
  answered. The clock has no fairness: the properties speak of seconds the
  thread has been shown, and release it when the process ends or the clock is moved away.
* `GodBot`: weak fairness of the bot thread and of the join. Nobody has to type
  a command.
* `BinanceApi`: weak fairness of the caller's steps, of time, and of the arrival of
  the copy that is being waited for. The network may fail `MaxFailures` times
  and then does not: a call does not end while every transfer fails, and the
  model says so. A transfer that neither fails nor is answered is excluded; the
  code sets no timeout, so there it would wait for ever (see the hazards).

## 4. The proofs

`tlapm` checks all of them, from these assumptions about the constants only:
`DoublesAssumption` (the two infinities and NaN are three values and no numbers),
`MoneyAssumption` (positive units, stop-loss at most 100 %), `GridAssumption` (a positive
grid), `PricesAssumption`, `PeriodsAssumption` and `BoundAssumption` (positive closes and
periods, out-of-bounds reads and a bound that are naturals), `StrategyAssumption`
(positive quotes, memory that holds doubles, positive periods, and a clock that starts
later than `log_time`, as seconds since 1970 do), `ApiAssumption`
(`RecvWindow < RetryDelay`), `AskedAssumption` (requests are requests), `LogAssumption`,
`RegistryAssumption` and `ExmoAssumption` (the bounds are naturals, and digests are
sequences of bytes). Two theorems have a hypothesis besides, which the paragraphs below
name: `OnlyStopLosesCapital` needs a take-profit of a percent, `NeverBornStopped` a stop-loss
with room for the fee.

**The indicators** (`IndicatorProofs`). `EMA`, the loop of `RSI` and the exact average are
recursive functions, so their values on a vector of any length need an induction. The
library's theorem takes an operator as its parameter; `SmallestOf` gets around it with the
fact that `<` on the naturals is well founded, which speaks of sets. From it follow
`UpTo` (induction up to a bound, on the set of numbers for which a fact holds),
`RecursionExists` (a recursion has a solution, hence the `CHOOSE` behind a recursive function
picks one) and `RecursionKeeps` (what each step keeps, the recursion keeps).
`AccurizeRounds` says how far `accurize` is from what it rounds. Then:
an EMA of quotes on the grid stays between two values on the grid (`EMAStays`), hence
`EMAsAreWithinCloses`; a rounded step adds at most half a grid to the error and averaging with
the exact price takes as much away (`DriftStep`), hence `DriftStaysBounded`; below half a grid
each step rounds to 0, hence `BelowGridIsOversold`. For the signal, `Sides` says that without a
flat move each vector of `RSI` is empty only if there is no move of its kind: a window that only
rises has no falls, the average of none is 0, and the RSI comes out as 0 where the index would be
100, whatever is read past the other vector (`RisingWindowBuys`). The rest of
`SignalIsOneSidedWindow`, that a mixed window is no signal, depends on what lies past the end of the arrays:
with a read of more than 55 times the closes it is false. The code bounds no such read, so this part is
not a theorem and is checked for reads of the scale of the prices only.

**The money** (`MoneyProofs`). With rounding down made explicit by a lemma about
division, `TargetIsGain` and `StopIsLoss` show that the two comparisons before
the fee imply the two bounds after it, for every price and percentage. `BoughtAboveStop` is the
other direction: a position that was bought at a price is not below its own stop at that price or
above, if what the stop-loss gives up, less the fee, is worth a unit of coin.
`SoldIsWorthSomething` goes through the arithmetic of infinities: a comparison with NaN is false, so
what satisfies one sells for something.

**The strategy** (`RSIStrategyProofs`). `TypeOK` is inductive and carries most of the
others. The account is disturbed by buying and selling only: `StepKinds` sorts
the steps into those two and the rest, `BuyEffect` and `SellEffect` say what
they do field by field, and `MoneyInOnePlace`, `FiniteWithoutBadAnswers`,
`LogAddsUp`, `CapitalNeverNaN` and `OnlyStopLosesCapital` follow from it. The
log needs a stronger invariant, `LogInv`, because `idletime` is set to 0 by
a trade and repaired at the end of the same iteration. `RsiMissesFewCandles` counts: `RsiInv` says
that the candles missed since the last RSI are no more than the seconds between `updatetime` and the
last iteration, plus a `Budget` of one timeframe for each time the clock was set back. `Refinement` proves
`Spec => PA!Spec`: initial states map to initial states, a buy to `Enter`,
a sale to `Exit` by the money lemmas, everything else to a stutter.
`NeverBornStopped` adds to the invariant that a purchase is at or below the close of its
candle (`BornInv`), which is what `get_min_price` is for; its hypothesis `StopLeavesRoom` is
that of `BoughtAboveStop`. It is needed: with a stop-loss of less than the fee every purchase
is stopped out at once. That the candles of usable
answers have quotes for both members goes through the kinds of answers in the order in
which `parse_str` reads the fields (`ReadOrderFacts`): a close that was read comes after an open
that was.

**The calls** (`BinanceApiProofs`). None of the properties is inductive. `IInv` adds
what the handle holds at each place (`HandleInv`), how far the clock has moved since
the timestamp (`LoopInv`), which copies are under way and which of them are
too old (`NetInv`), that an executed call has no first copy left (`OnceInv`), and
what the answer implies (`AnswerInv`). The core is that the second copy
of a request is sent at least `RetryDelay` after the timestamp that both
carry, so only the first can be in time; from it follow
`OrdersExecuteAtMostOnce`, `AcceptedIsExecuted` and, because a repeated call
returns late, `AnswersAreFinal`. The argument needs the *old* timestamp to be
sent again, and `RecvWindow < RetryDelay`: a request with a wider window, such as
the `recvWindow=60000` that `tests/general_tests.cpp:119` gives to the test
endpoint, would not be protected. `RequestsAreSentAsAsked` rests on two facts
about the shared handle: setting the same options twice is setting them once,
and `call` never gives up between a failure and a success.

`ChannelRefinement` proves `Spec => Channel!Spec` from the same invariant: an
arrival that executes maps to `CarryOut`, an answer to `Return`, and every failure,
retry, tick and late copy to a stutter.

**The threads** (`GodBotProofs`). The configuration is a program of thirteen lines that may
stop at any of them. The invariant says which members are assigned when the
thread is at a line, and that the flag, which the loop test dereferences first, is
assigned by the last one: hence `NoTradeUnconfigured`. `CallsCarryKeys` and `BotOutlivesThread` are proved here
and not repeated by a run, nor are `AcceptedAtFirstAttempt` and the type invariants of
the modules other than `RSIStrategy` and `GodBot`.
`FilesComeByPrecedence` is about `BotConfig`: `get` finds the
first entry with a key (`GetFirst`), so of two files that were appended to one tree the first
one decides (`AppendedEntries`). It is about finitely many options and files; the proof says
why it holds, TLC that it does.

**The log** (`TradeLogProofs`). A file is `Healthy` (its records with separators between them are on the
disk, and one separator waits in the buffer) or `Broken` by a stream that failed, and
then the run that wrote it is over (`FilesInv`); or a later log has emptied it. `NamesInv` says that
the name of an earlier run's log is below the clock unless the clock was set back since, so that the
next name is new: hence `LogsOutliveRestarts`. `ListAppend` is the
lemma that one more record is what is pending followed by that record;
`FlushedFile` and `BrokenFile` say what `output` makes of a healthy file.

**The registry** (`BotRegistryProofs`). `TypeOK` shows that the unsigned count never wraps (it counts those that live), and
`SameSecondSameTag` that bots named in one second are named alike. Unique ids are not inductive: with a bot
missing from the middle the next id would be taken. `IdsArePositions` is: as long
as the youngest goes first, the i-th bot has the id i - 1.

**The nonces** (`ExmoApiProofs`). `NonceCounts` (a nonce is the time of birth and the
calls since) makes a paced run end below the clock; `NoncesInOrder` then keeps nonces in the
order of calls over copies, exchange and restarts. `NonceCounts` also bounds the nonces, so
that each has a digest, and `CallsAreSigned` follows from the next paragraph.

**The signature** (also `ExmoApiProofs`). For every byte the two nibbles of its signed `char` are those of the byte
(`Nibbles`); the text of a digest of any length follows position by position (`SignatureIsDigest`).

Only model-checked: everything under fairness (`Heartbeat`, `SetbackIsLogged`,
`CallReturns`, `EarlyStopIsObeyed`, `MisconfiguredNeverLoops`), which is out of the prover's
reach, and `SignalIsOneSidedWindow` for the reason given above. Every other property that a passing run
checks is a theorem.

## 5. Findings

* `exit` does not end the program once the bot has copied the flag (`exit`).
* `RSI` hands `EMA` a position one past the end (`ema_position`).
* `query_spot_order` sends the request of `open_spot_order` (`query`).
* `STOP_LOSS_LIMIT` has no name in `order_type_`, so such orders throw (`order_types`).
* `key_by_value` returns `m1` for every timeframe but `1s`: the strategy of a bot that is configured
  for `1h` computes the RSI every minute (`timeframe`).

Details and the documents they contradict are in `PROJECT.json`.

## 6. Not modelled, and why

* HMAC itself, libcurl, JSON, program_options and the exchanges: what the code
  relies on, marked external or part of an action.
* `GB_SimpleStrategy.cpp` and `exmo.cpp` are commented out from the first line to the
  last. `CMakeLists.txt` lists the first and not `GB_RSIStrategy.cpp`.
* `Pause`, `Resume`: the flag they set is read by nobody. `SetConfig`, `GetLifeTime`,
  `clean_up`, `Kline::operator==`, the constructor of a candle from ten values, `build`: no
  caller. Getters: no effect. `base_strategy::logs_folder_` is neither assigned nor read.
* Copies of a `GodBot`: its implicit copy constructor counts nothing and its destructor does, but
  the program makes none.
* What undefined behaviour may do beyond the value it yields or the end of the process.
* `set_cfg` and `set_keys` while calls are made, and a handle shared by two threads: the
  program never does either.
* A stalled connection, leaked header lists, six decimals in the prices of orders: see
  the hazards without a property. An empty folder name, whose `back()` is undefined.
* The comment of `RSI` (`hpp/ta.hpp:79`) speaks of the first n candles; the code, and
  the model, look at the last ones.
* The generated files under `CMakeFiles/` and the vendored `tests/catch.hpp`.

## 7. The plan

In order of importance; done are

1. `RSIStrategy` on `Money`, `TechnicalAnalysis` and `Candles`, with `PaperAccount` as its promise.
2. Its proofs: types, account, log, candles the RSI misses, refinement.
3. `GodBot`: the threads, the flag and the configuration, and its proofs.
4. `BinanceApi`: retries, the shared handle, an unreliable network, and its proofs.
5. `OrderChannel`, which `BinanceApi` is proved to implement.
6. `TradeLog`, `BotRegistry`, `ExmoApi`, `Signing`, with their proofs; `BotConfig`.
7. The indicators, candles and configuration as theorems.

Left is

8. a composition of `RSIStrategy` and `TradeLog`, with the figures of the records in the files. The
   error of a log that ends the thread in the middle of an iteration is already in `RSIStrategy`
   and `GodBot`.
