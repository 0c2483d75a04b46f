\* Indicators over every vector of up to five closes, on and off the grid
\* of three decimals (units of 0.0001).
SPECIFICATION Spec
CONSTANTS
  Grid = 10
  Prices = {3, 27, 100, 370, 4000, 4010}
  JunkReads = {0, 4, 370, 4010}
  Periods = {2, 3, 4}
  MaxLen = 5
INVARIANTS
  RoundingDriftBounded
  EMAWithinCloses
  SignalIsOneSidedWindow
  ShortHistorySignalsBuy
  BelowGridAlwaysBuys
