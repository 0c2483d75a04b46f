-------------------------------- MODULE Money --------------------------------
(***************************************************************************)
(* The arithmetic of the paper account: the double expressions of          *)
(* GB_RSIStrategy::Run as pure operators.                                  *)
(*                                                                         *)
(* Balances and prices count whole money units, coins are counted in       *)
(* 1/Unit of a coin.  Prices that come from memory are any doubles:        *)
(* negative, zero, infinite or NaN.                                        *)
(***************************************************************************)
EXTENDS Doubles

CONSTANTS
  Unit,        \* fractions of a coin that are told apart
  TakePct,     \* take_profit_percentage
  StopPct      \* stop_loss_percentage

ASSUME MoneyAssumption ==
  /\ Unit \in Nat \ {0}
  /\ TakePct \in Nat
  /\ StopPct \in 0 .. 100

\* "* 0.999", the fee of every trade
FeeNum == 999
FeeDen == 1000

----------------------------------------------------------------------------
(* balance / min_kline_price * 0.999                                       *)
Coins(b, p) == Divided(Times(b, Unit * FeeNum), Times(p, FeeDen))

(* coins * last_price, in 1/Unit of a money unit                           *)
Worth(c, p) == Times(c, p)

(* coins * last_price * 0.999, in money units                              *)
Proceeds(c, p) == Divided(Times(Worth(c, p), FeeNum), Unit * FeeDen)

(* coins * last_price >= old_balance * take_profit_                        *)

HitsTargetBelowCost(c, p, old) ==      \* 1 - take_profit_percentage / 100
  AtLeast(Times(Worth(c, p), 100), Times(old, (100 - TakePct) * Unit))

HitsTarget(c, p, old) ==
  AtLeast(Times(Worth(c, p), 100), Times(old, (100 + TakePct) * Unit))

(* coins * last_price < old_balance * stop_loss_                           *)

HitsStopUnlessAbove(c, p, old) ==      \* !(worth >= ...): true for NaN
  ~AtLeast(Times(Worth(c, p), 100), Times(old, (100 - StopPct) * Unit))

HitsStop(c, p, old) ==
  Less(Times(Worth(c, p), 100), Times(old, (100 - StopPct) * Unit))

----------------------------------------------------------------------------
(* The outcomes of a sale, in terms of the capital alone.                  *)

RoundedUp(c) == IF c \in Int THEN c + 1 ELSE c

(* Sold at c what had been bought with o, having reached the target: the   *)
(* proceeds are rounded down to a whole money unit.                        *)
Gained(o, c) ==
  AtLeast(Times(RoundedUp(c), 100 * FeeDen), Times(o, (100 + TakePct) * FeeNum))

(* Sold at c what had been bought with o, having fallen below the stop.    *)
Lost(o, c) == Less(Times(c, 100 * FeeDen), Times(o, (100 - StopPct) * FeeNum))
==============================================================================
