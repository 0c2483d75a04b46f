----------------------------- MODULE OrderChannel -----------------------------
(***************************************************************************)
(* What a caller may rely on who sends its orders through binance_api,     *)
(* without handles, copies, clocks or retries: a call is carried out at    *)
(* most once, while it lasts and never later, and the caller is told       *)
(* "accepted" only of an order that was.  It is not promised more: an      *)
(* order of which the caller is told "rejected" may have been carried out. *)
(***************************************************************************)
EXTENDS Integers

CONSTANT MaxCalls

VARIABLES
  current,     \* the number of the latest call
  order,       \* whether it is signed, and may be carried out
  busy,        \* it has not returned yet
  done,        \* how often each call has been carried out
  told         \* what the latest call ended with, or "none"

channelVars == <<current, order, busy, done, told>>

Init ==
  /\ current = 0
  /\ order = FALSE /\ busy = FALSE
  /\ done = [n \in 1..MaxCalls |-> 0]
  /\ told = "none"

Begin ==
  /\ ~busy
  /\ current' = current + 1
  /\ order' \in BOOLEAN
  /\ \/ busy' = TRUE /\ told' = "none"
     \/ busy' = FALSE /\ told' = "threw"
  /\ UNCHANGED done

CarryOut ==
  /\ busy /\ order
  /\ done[current] = 0
  /\ done' = [done EXCEPT ![current] = 1]
  /\ UNCHANGED <<current, order, busy, told>>

Return ==
  /\ busy
  /\ busy' = FALSE
  /\ told' \in {"accepted", "rejected"}
  /\ told' = "accepted" /\ order => done[current] = 1
  /\ UNCHANGED <<current, order, done>>

Next == Begin \/ CarryOut \/ Return

Spec == Init /\ [][Next]_channelVars
===============================================================================
