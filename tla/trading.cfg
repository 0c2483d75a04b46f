\* The strategy on every answer there may be, on a clock that is also set back.
SPECIFICATION FairSpec
CONSTANTS
  Inf = Inf
  NegInf = NegInf
  NaN = NaN
  Grid = 1
  Unit = 100
  TakePct = 1
  StopPct = 5
  Prices = {94, 102}
  Junk <- Oddities
  N = 1
  Timeframe = 2
  LogTime = 2
  StartBalance = 1000
  StartTime = 3
  Earliest = 2
  Horizon = 5
  Advances = {1}
  Setbacks = {2}
  MaxSetbacks = 1
INVARIANTS
  TypeOK
  AccountOK
  BooksBalance
  LogShowsAccount
  NotBornStopped
  RsiMissesFew
  OnlyBadAnswersCorrupt
  CapitalIsANumber
PROPERTIES
  ImplementsPaperAccount
  CapitalFallsOnlyAtStop
  Heartbeat
  SetbackIsLogged
