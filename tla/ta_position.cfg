\* Do RSI's calls of EMA respect the documented meaning of pos?
SPECIFICATION Spec
CONSTANTS
  Grid = 1
  Prices = {10, 37, 401}
  JunkReads = {0, 37}
  Periods = {2}
  MaxLen = 4
INVARIANT PositionInArray
