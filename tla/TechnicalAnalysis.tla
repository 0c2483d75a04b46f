------------------------- MODULE TechnicalAnalysis -------------------------
(***************************************************************************)
(* The indicators of hpp/ta.hpp: accurize, EMA and RSI, as pure operators. *)
(*                                                                         *)
(* A price is a natural number of price units.  accurize keeps three       *)
(* decimals; Grid is the number of price units in 0.001, so Grid = 1 when  *)
(* quotes have three decimals and Grid > 1 when they are finer.            *)
(*                                                                         *)
(* RSI reads memory outside its vectors: the element past the end of "up"  *)
(* and of "down" (EMA is called with pos = size()), and data[-1] when      *)
(* there are exactly n candles.  What those reads yield is a parameter,    *)
(* junk: the user of RSI chooses it nondeterministically.                  *)
(***************************************************************************)
EXTENDS Integers, Sequences, SequencesExt

CONSTANT Grid

ASSUME GridAssumption == Grid \in Nat \ {0}

----------------------------------------------------------------------------
(* accurize: num/den rounded, half away from zero, to a multiple of Grid.  *)

accurizeFine(num, den) == num \div den                    \* no rounding

accurizeDown(num, den) == Grid * (num \div (Grid * den))   \* truncation

accurize(num, den) == Grid * ((2 * num + Grid * den) \div (2 * Grid * den))

(* EMA(n, cur_price, prev_ema): the weight of the newest price is 2/(n+1). *)

EMAStep(n, cur, prev) == accurize(2 * cur + (n - 1) * prev, n + 1)

(* EMA(n, data, pos): data[0] is the seed; the result for every position   *)
(* before pos is rounded, once more, before its step.  The read at         *)
(* data.size() yields past.                                                *)
EMAUnseeded(n, data, pos, past) ==
  LET ema[k \in 0 .. Len(data)] ==
        EMAStep(n, Append(data, past)[k + 1],
                IF k = 0 THEN 0 ELSE accurize(ema[k - 1], 1))
  IN IF data = << >> THEN 0 ELSE ema[pos]

EMA(n, data, pos, past) ==
  LET ema[k \in 0 .. Len(data)] ==
        IF k = 0 THEN data[1]
        ELSE EMAStep(n, Append(data, past)[k + 1], accurize(ema[k - 1], 1))
  IN IF data = << >> THEN 0 ELSE ema[pos]

(* The overload on candles looks at nothing but their closes.              *)
EMAOfKlines(n, klines, pos, past) ==
  EMA(n, [k \in DOMAIN klines |-> klines[k].close], pos, past)

(* Deprecated: one step from the newest candle.                            *)
EMAOfLast(n, klines, ema) == EMAStep(n, Last(klines).close, ema)

----------------------------------------------------------------------------
(* RSI compares each of the last n closes with its predecessor.  With      *)
(* fewer than n candles size() - n wraps to a negative int, the loop test  *)
(* converts it to a huge unsigned value, and the loop body never runs.     *)

MovesOffByOne(n, data, before) ==
  IF Len(data) < n THEN << >>
  ELSE [k \in 1 .. n - 1 |->
          LET i == Len(data) - n + 1 + k
          IN [close |-> data[i], prev |-> IF i = 1 THEN before ELSE data[i - 1]]]

MovesClamped(n, data, before) ==       \* the wrap of size() - n avoided
  IF data = << >> THEN << >>
  ELSE [k \in 1 .. Len(data) - 1 |-> [close |-> data[k + 1], prev |-> data[k]]]

Moves(n, data, before) ==
  IF Len(data) < n THEN << >>
  ELSE [k \in 1 .. n |->
          LET i == Len(data) - n + k
          IN [close |-> data[i], prev |-> IF i = 1 THEN before ELSE data[i - 1]]]

(* The loop over the moves: a rise is pushed on "up", a fall on "down",    *)
(* and for a flat move a 0 on both.                                        *)
Push(v, m) ==
  IF m.close > m.prev THEN [v EXCEPT !.up = Append(@, m.close)]
  ELSE IF m.close < m.prev THEN [v EXCEPT !.down = Append(@, m.close)]
  ELSE [up |-> Append(v.up, 0), down |-> Append(v.down, 0)]

UpDown(moves) ==
  LET pushed[k \in 0 .. Len(moves)] ==
        IF k = 0 THEN [up |-> << >>, down |-> << >>]
        ELSE Push(pushed[k - 1], moves[k])
  IN pushed[Len(moves)]

(* rsi < 0.3, where rsi is 0 when ema_down is 0 and otherwise              *)
(* 100 - 100 / (1 + ema_up / ema_down): that is 99.7 * up < 0.3 * down.    *)
RSIBelow(ema_up, ema_down) ==
  \/ ema_down = 0
  \/ 997 * ema_up < 3 * ema_down

(* The two EMA calls of RSI, each with pos = size() of its vector.         *)
EMACalls(n, data, before) ==
  LET v == UpDown(Moves(n, data, before))
  IN [up   |-> [data |-> v.up,   pos |-> Len(v.up)],
      down |-> [data |-> v.down, pos |-> Len(v.down)]]

(* RSI(n, data) < 0.3, the only use the strategy makes of RSI in a         *)
(* decision.                                                               *)
Oversold(n, data, junk) ==
  LET call == EMACalls(n, data, junk.before)
  IN RSIBelow(EMA(n, call.up.data, call.up.pos, junk.up),
              EMA(n, call.down.data, call.down.pos, junk.down))
============================================================================
