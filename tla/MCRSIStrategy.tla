---------------------------- MODULE MCRSIStrategy ----------------------------
(***************************************************************************)
(* RSIStrategy with a memory that holds, besides the quotes, doubles that  *)
(* make amounts negative, infinite and NaN.                                *)
(***************************************************************************)
EXTENDS RSIStrategy

Oddities == {0, -100, NaN}
==============================================================================
