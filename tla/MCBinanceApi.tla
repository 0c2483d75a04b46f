---------------------------- MODULE MCBinanceApi ----------------------------
(***************************************************************************)
(* The requests that the runs of BinanceApi make.                          *)
(***************************************************************************)
EXTENDS BinanceApi

Plain(o) == [op |-> o, type |-> NoName, side |-> NoName]

(* One of each verb and each security.                                     *)
AskedMixed ==
  {[op |-> "open_spot_order", type |-> "LIMIT", side |-> "BUY"],
   Plain("close_spot_order"), Plain("query_spot_order"), Plain("get_kline")}

(* An order to sell goes the way of one to buy.                            *)
AskedAll == {r \in Requests : r.side # "SELL"}

=============================================================================
