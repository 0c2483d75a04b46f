------------------------ MODULE MCTechnicalAnalysis ------------------------
(***************************************************************************)
(* Bounded checks of TechnicalAnalysis: every vector of at most MaxLen     *)
(* closes, for every period in Periods.  The vector grows as the           *)
(* strategy's vec does, one close per step; at MaxLen the oldest close is  *)
(* dropped, so that the vectors of every length are all visited.           *)
(***************************************************************************)
EXTENDS TechnicalAnalysis

CONSTANTS
  Prices,      \* the closes
  JunkReads,   \* what an out-of-bounds read may yield
  Periods,     \* values of n
  MaxLen       \* bound on the vector

ASSUME PricesAssumption == Prices \subseteq Nat \ {0} /\ JunkReads \subseteq Nat

ASSUME BoundAssumption == MaxLen \in Nat

ASSUME PeriodsAssumption == Periods \subseteq Nat \ {0}

VARIABLES n, data

vars == <<n, data>>

Init == n \in Periods /\ data = << >>

PushBack(p) ==
  LET grown == Append(data, p)
  IN /\ data' = IF Len(grown) > MaxLen THEN Tail(grown) ELSE grown
     /\ UNCHANGED n

Next == \E p \in Prices : PushBack(p)

Spec == Init /\ [][Next]_vars

----------------------------------------------------------------------------
Junk == [before : JunkReads, up : JunkReads, down : JunkReads]

OnGrid(quotes) == \A quote \in quotes : quote % Grid = 0

Positions == 0 .. Len(data) - 1

(* The EMA at pos without any rounding, as a fraction: the formula of      *)
(* hpp/ta.hpp:17-21 with the denominators n + 1 carried along.             *)
ExactEMA(pos) ==
  LET exact[k \in Positions] ==
        IF k = 0 THEN [num |-> data[1], den |-> 1]
        ELSE [num |-> 2 * exact[k - 1].den * data[k + 1] + (n - 1) * exact[k - 1].num,
              den |-> (n + 1) * exact[k - 1].den]
  IN exact[pos]

Distance(a, b) == IF a < b THEN b - a ELSE a - b

(* The vector is the last closes seen, at most MaxLen of them.             *)
TypeOK ==
  /\ n \in Periods
  /\ data \in BoundedSeq(Prices, MaxLen)
  /\ \A pos \in Positions : EMA(n, data, pos, 0) \in Nat

(* Rounding to three decimals at every level of the recursion never lets   *)
(* the EMA drift by more than (n+1)/4 thousandths from the exact weighted  *)
(* average, however long the vector is: the bound does not depend on pos.  *)
(* About EMA and accurize, hpp/ta.hpp:12-46.                               *)
RoundingDriftBounded ==
  \A pos \in Positions :
    LET exact == ExactEMA(pos)
    IN 4 * Distance(EMA(n, data, pos, 0) * exact.den, exact.num)
         <= Grid * (n + 1) * exact.den

(* For quotes on the three-decimal grid, an EMA lies between the smallest  *)
(* and the largest close it averages, rounding included, whichever         *)
(* overload computes it: that on closes, that on candles, or the           *)
(* deprecated one that takes the EMA before the newest candle.             *)
(* About hpp/ta.hpp:24-73.                                                 *)
EMAWithinCloses ==
  \A pos \in Positions :
    LET closes == {data[k] : k \in 1 .. pos + 1}
        klines == [k \in 1 .. pos + 1 |-> [close |-> data[k]]]
        before == IF pos = 0 THEN data[1] ELSE EMA(n, data, pos - 1, 0)
    IN OnGrid(closes) =>
         {EMA(n, data, pos, 0), EMAOfKlines(n, klines, pos, 0),
          EMAOfLast(n, klines, before)} \subseteq Min(closes) .. Max(closes)

HasFlatMove == \E i \in Len(data) - n + 1 .. Len(data) : data[i] = data[i - 1]
HasRise     == \E i \in Len(data) - n + 1 .. Len(data) : data[i] > data[i - 1]
HasFall     == \E i \in Len(data) - n + 1 .. Len(data) : data[i] < data[i - 1]

(* What the buy signal really says, for quotes on the grid: over the last  *)
(* n moves, none of them flat, RSI < 0.3 exactly when the moves are all    *)
(* rises or all falls.  The out-of-bounds reads cannot change the signal   *)
(* unless some move is flat, or unless they are of another scale than the  *)
(* prices: far above 55 closes, a read past "down" would be a buy signal.  *)
(* About RSI, hpp/ta.hpp:81-123.                                           *)
SignalIsOneSidedWindow ==
  (Len(data) > n /\ OnGrid(ToSet(data)) /\ ~HasFlatMove) =>
    \A j \in Junk : Oversold(n, data, j) <=> ~(HasRise /\ HasFall)

(* A history shorter than n candles - a new listing, an empty or error     *)
(* answer - reads as RSI = 0, a buy signal: size() - n wraps and the loop  *)
(* over the moves never runs.  About RSI, hpp/ta.hpp:90 and 109-111.       *)
ShortHistorySignalsBuy ==
  Len(data) < n => \A j \in Junk : Oversold(n, data, j)

(* A symbol quoted below half of 0.001, like the one of general_tests.cpp  *)
(* at line 56, is bought whatever its price does: the seed and every step  *)
(* of an EMA round to 0 unless a read past the end is of another scale.    *)
(* About accurize, hpp/ta.hpp:12-15, and RSI's test for 0 at line 109.     *)
BelowGridAlwaysBuys ==
  \A j \in Junk :
    (\A quote \in ToSet(data) \cup {j.before, j.up, j.down} : 2 * quote < Grid)
      => Oversold(n, data, j)

(* "@param pos  const reference to position in array" (hpp/ta.hpp:52):     *)
(* every EMA call of RSI on a non-empty vector names one of its elements.  *)
PositionInArray ==
  \A before \in JunkReads :
    \A side \in {"up", "down"} :
      LET call == EMACalls(n, data, before)[side]
      IN call.data # << >> => call.pos \in 0 .. Len(call.data) - 1
============================================================================
