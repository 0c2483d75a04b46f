----------------------------- MODULE PaperAccount -----------------------------
(***************************************************************************)
(* What the strategy promises about its paper account, without prices,     *)
(* clocks or signals: capital is committed and released, and every release *)
(* is either a gain of at least the take-profit or a loss of more than the *)
(* stop-loss, both net of the fee of the sale.                             *)
(***************************************************************************)
EXTENDS Money

CONSTANT StartBalance

VARIABLES
  position,    \* "cash" or "coins"
  capital      \* what the last sale left, committed while in "coins"

accountVars == <<position, capital>>

Init ==
  /\ position = "cash"
  /\ capital = StartBalance

Enter ==
  /\ position = "cash"
  /\ position' = "coins"
  /\ UNCHANGED capital

Exit ==
  /\ position = "coins"
  /\ position' = "cash"
  /\ capital' \in Doubles
  /\ Gained(capital, capital') \/ Lost(capital, capital')

Next == Enter \/ Exit

Spec == Init /\ [][Next]_accountVars
===============================================================================
