-------------------------------- MODULE Signing --------------------------------
(***************************************************************************)
(* hex_digest of HMAC_SHA256 and HMAC_SHA512: the digest that OpenSSL has  *)
(* computed, as the hexadecimal string that is sent as the signature.  The *)
(* bytes pass through a char, which is signed: a byte above 127 becomes a  *)
(* negative number before its bits are taken.                              *)
(***************************************************************************)
EXTENDS Integers, Sequences

Byte == 0 .. 255
Digit == 0 .. 15       \* an index of hex_chars

(* digest_: what HMAC_Final has left in result, byte by byte.              *)
Collected(result) == [k \in 1 .. Len(result) |-> result[k] % 256]

Collected512(result) == Collected(result)       \* the same text once more

\* const char byte = i;
AsChar(i) == IF i > 127 THEN i - 256 ELSE i

\* (byte & 0xF0) >> 4 and (byte & 0x0F) >> 0; & works on two's complement
HighNibbleUnmasked(byte) == byte \div 16
HighNibble(byte) == (byte % 256) \div 16
LowNibble(byte) == byte % 16

HexDigest(digest) ==
  [k \in 1 .. 2 * Len(digest) |->
     LET byte == AsChar(digest[(k + 1) \div 2])
     IN IF k % 2 = 1 THEN HighNibble(byte) ELSE LowNibble(byte)]

HexDigest512(digest) == HexDigest(digest)       \* the same text once more

----------------------------------------------------------------------------
(* The exchange reads the digest back, two digits to a byte.               *)
ReadBack(hex) ==
  [k \in 1 .. Len(hex) \div 2 |-> 16 * hex[2 * k - 1] + hex[2 * k]]
================================================================================
