------------------------------- MODULE MCExmoApi -------------------------------
(***************************************************************************)
(* ExmoApi with digests of 64 bytes, as HMAC_SHA512 has them; those of     *)
(* four nonces in a row hold every byte there is.                          *)
(***************************************************************************)
EXTENDS ExmoApi

EveryByte ==
  [nonce \in 0 .. Horizon + MaxCalls |->
     [k \in 1 .. 64 |-> (64 * nonce + k - 1) % 256]]
================================================================================
