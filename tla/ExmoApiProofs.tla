----------------------------- MODULE ExmoApiProofs -----------------------------
(***************************************************************************)
(* The second exchange for any number of calls and runs.  The argument: a  *)
(* run that makes no more calls than it lasts seconds never gets ahead of  *)
(* the clock, so the next run starts above every nonce that was used, and  *)
(* nonces are then in the order of the calls, whatever is still under way. *)
(***************************************************************************)
EXTENDS ExmoApi, TLAPS

(* The signature: what is sent is the digest, whatever its length (32      *)
(* bytes of HMAC_SHA256, 64 of HMAC_SHA512).                               *)

(* One byte: no digit is out of hex_chars, and none of its bits is lost    *)
(* on the way through the signed char.                                     *)
LEMMA Nibbles ==
  ASSUME NEW i \in Byte
  PROVE  /\ HighNibble(AsChar(i)) \in Digit
         /\ LowNibble(AsChar(i)) \in Digit
         /\ 16 * HighNibble(AsChar(i)) + LowNibble(AsChar(i)) = i
<1>1. AsChar(i) % 256 = i /\ AsChar(i) % 16 = i % 16
  BY DEF AsChar, Byte
<1>2. i \div 16 \in Digit /\ i % 16 \in Digit /\ 16 * (i \div 16) + (i % 16) = i
  BY DEF Byte, Digit
<1> QED
  BY <1>1, <1>2 DEF HighNibble, LowNibble

LEMMA HexDigestFacts ==
  ASSUME NEW d \in Seq(Byte)
  PROVE  /\ HexDigest(d) \in Seq(Digit)
         /\ Len(HexDigest(d)) = 2 * Len(d)
         /\ ReadBack(HexDigest(d)) = d
<1> DEFINE hex == HexDigest(d)
<1>1. Len(d) \in Nat /\ \A i \in 1 .. Len(d) : d[i] \in Byte
  OBVIOUS
<1>2. \A k \in 1 .. 2 * Len(d) :
        hex[k] = IF k % 2 = 1 THEN HighNibble(AsChar(d[(k + 1) \div 2]))
                 ELSE LowNibble(AsChar(d[(k + 1) \div 2]))
  BY DEF HexDigest
<1>3. \A k \in 1 .. 2 * Len(d) : (k + 1) \div 2 \in 1 .. Len(d)
  BY <1>1
<1>4. \A k \in 1 .. 2 * Len(d) : hex[k] \in Digit
  BY <1>1, <1>2, <1>3, Nibbles
<1>5. hex \in Seq(Digit) /\ Len(hex) = 2 * Len(d)
  BY <1>1, <1>4 DEF HexDigest
<1>6. \A k \in 1 .. Len(d) : 16 * hex[2 * k - 1] + hex[2 * k] = d[k]
  <2> TAKE k \in 1 .. Len(d)
  <2>1. /\ 2 * k - 1 \in 1 .. 2 * Len(d) /\ 2 * k \in 1 .. 2 * Len(d)
        /\ (2 * k - 1) % 2 = 1 /\ (2 * k) % 2 = 0
        /\ (2 * k - 1 + 1) \div 2 = k /\ (2 * k + 1) \div 2 = k
    BY <1>1
  <2>2. hex[2 * k - 1] = HighNibble(AsChar(d[k]))
    BY <1>2, <2>1
  <2>3. hex[2 * k] = LowNibble(AsChar(d[k]))
    BY <1>2, <2>1
  <2> QED
    BY <1>1, <2>2, <2>3, Nibbles
<1>7. ReadBack(hex) = d
  <2> HIDE DEF hex
  <2>1. Len(hex) \div 2 = Len(d)
    BY <1>1, <1>5
  <2>2. ReadBack(hex) = [k \in 1 .. Len(d) |-> d[k]]
    BY <1>6, <2>1 DEF ReadBack
  <2> QED
    BY <2>2
<1> QED
  BY <1>4, <1>5, <1>7

(* What is sent as the signature of a digest, of any length: hexadecimal   *)
(* digits that can be read back as the digest.  About hmac_sha256.hpp and  *)
(* hmac_sha512.hpp, which have the same text.                              *)
THEOREM SignatureIsDigest ==
  ASSUME NEW d \in Seq(Byte)
  PROVE  /\ HexDigest(Collected(d)) \in Seq(Digit)
         /\ ReadBack(HexDigest(Collected(d))) = d
<1> \A b \in Byte : b % 256 = b
  BY DEF Byte
<1>1. Len(d) \in Nat /\ \A k \in 1 .. Len(d) : d[k] % 256 = d[k]
  OBVIOUS
<1>2. Collected(d) = [k \in 1 .. Len(d) |-> d[k]]
  BY <1>1 DEF Collected
<1>3. Collected(d) = d
  BY <1>2
<1> QED
  BY <1>3, HexDigestFacts

----------------------------------------------------------------------------
(* The nonce counts from the moment the object was built, which bounds the *)
(* nonces for which a digest is needed.                                    *)
NonceCounts ==
  /\ nonce_ = born + made
  /\ born <= now /\ now <= Horizon
  /\ made <= calls /\ calls <= MaxCalls

(* The nonces in use, by copies and by the exchange, are below the next    *)
(* one and in the order of the calls.                                      *)
NoncesInOrder ==
  /\ last <= nonce_ /\ taken <= calls
  /\ \A m \in net :
       /\ m.nonce <= nonce_ /\ m.call <= calls
       /\ m.nonce > last => m.call > taken
       /\ \A k \in net : m.nonce > k.nonce => m.call > k.call

IInv == TypeOK /\ NonceCounts /\ SignedAsSent /\ (paced => NoncesInOrder)

----------------------------------------------------------------------------
LEMMA CopyFields ==
  /\ \A m \in Copies : /\ m.call \in Nat /\ m.nonce \in Nat
                       /\ m.nonce \in 0 .. Horizon + MaxCalls
  /\ \A c \in Nat \ {0}, n \in 0 .. Horizon + MaxCalls, s \in Seq(Digit) :
       [call |-> c, nonce |-> n, sign |-> s] \in Copies
BY ExmoAssumption DEF Copies, ExmoAssumption

LEMMA IInvInit == Init => IInv
BY ExmoAssumption
   DEF Init, IInv, TypeOK, NonceCounts, NoncesInOrder, FirstNonce, SignedAsSent,
       ExmoAssumption

(* What Call sends for a nonce can be read back as the digest of its text. *)
LEMMA SignatureOfNonce ==
  ASSUME NEW n \in 0 .. Horizon + MaxCalls
  PROVE  LET sign == HexDigest512(Collected512(Hmac[n]))
         IN sign \in Seq(Digit) /\ ReadBack(sign) = Hmac[n]
<1>1. Hmac[n] \in Seq(Byte)
  BY ExmoAssumption DEF ExmoAssumption
<1> QED
  BY <1>1, SignatureIsDigest DEF HexDigest512, Collected512

LEMMA CallStep ==
  ASSUME IInv, Call
  PROVE  IInv'
<1> DEFINE sign == HexDigest512(Collected512(Hmac[nonce_ + 1]))
           m == [call |-> calls + 1, nonce |-> nonce_ + 1, sign |-> sign]
<1>1. /\ net \subseteq Copies /\ {calls, nonce_, made} \subseteq Nat
      /\ {last, taken, born, now} \subseteq Nat /\ paced \in BOOLEAN
  BY DEF IInv, TypeOK
<1>2. /\ calls' = calls + 1 /\ nonce_' = nonce_ + 1 /\ made' = made + 1
      /\ net' = net \cup {m} /\ pc' = "perform"
      /\ UNCHANGED <<last, taken, born, paced, now>>
      /\ calls < MaxCalls
  BY DEF Call, NextNonce, exchange, run
<1> /\ calls \in Nat /\ nonce_ \in Nat /\ made \in Nat /\ born \in Nat
    /\ now \in Nat /\ MaxCalls \in Nat /\ Horizon \in Nat
  BY <1>1, ExmoAssumption DEF ExmoAssumption
<1> nonce_ = born + made /\ born <= now /\ now <= Horizon /\ made <= calls
  BY DEF IInv, NonceCounts
<1>3. nonce_ + 1 \in 0 .. Horizon + MaxCalls
  BY <1>2
<1>4. sign \in Seq(Digit) /\ ReadBack(sign) = Hmac[nonce_ + 1]
  BY <1>3, SignatureOfNonce
<1> HIDE DEF sign
<1>5. /\ m \in Copies /\ m.call = calls + 1 /\ m.nonce = nonce_ + 1
      /\ m.sign = sign
  <2>1. calls + 1 \in Nat \ {0}
    OBVIOUS
  <2> QED
    BY <1>3, <1>4, <2>1, CopyFields, Zenon
<1> HIDE DEF m
<1>6. TypeOK'
  BY <1>1, <1>2, <1>5 DEF IInv, TypeOK
<1>7. NonceCounts'
  BY <1>2 DEF NonceCounts
<1>8. SignedAsSent'
  BY <1>2, <1>4, <1>5 DEF IInv, SignedAsSent
<1>9. ASSUME paced
      PROVE  NoncesInOrder'
  <2>1. NoncesInOrder
    BY <1>9 DEF IInv
  <2>2. last' <= nonce_' /\ taken' <= calls'
    BY <1>1, <1>2, <2>1 DEF NoncesInOrder
  <2>3. ASSUME NEW a \in net'
        PROVE  /\ a.nonce <= nonce_' /\ a.call <= calls'
               /\ a.nonce > last' => a.call > taken'
               /\ \A b \in net' : a.nonce > b.nonce => a.call > b.call
    <3>1. CASE a = m
      <4>1. \A b \in net : b.call \in Nat /\ b.call <= calls
        BY <1>1, <2>1, CopyFields DEF NoncesInOrder
      <4> QED
        BY <1>1, <1>2, <1>5, <2>1, <3>1, <4>1 DEF NoncesInOrder
    <3>2. CASE a \in net
      <4>1. /\ a.nonce <= nonce_ /\ a.call <= calls
            /\ a.nonce > last => a.call > taken
            /\ \A b \in net : a.nonce > b.nonce => a.call > b.call
            /\ a.nonce \in Nat /\ a.call \in Nat
        BY <1>1, <2>1, <3>2, CopyFields DEF NoncesInOrder
      <4> QED
        BY <1>1, <1>2, <1>5, <4>1
    <3> QED
      BY <1>2, <3>1, <3>2
  <2> QED
    BY <2>2, <2>3, Zenon DEF NoncesInOrder
<1> QED
  BY <1>2, <1>6, <1>7, <1>8, <1>9 DEF IInv

LEMMA ArriveStep ==
  ASSUME IInv, NEW m \in net, Arrive(m)
  PROVE  IInv'
<1>1. /\ net \subseteq Copies /\ m \in Copies
      /\ {calls, nonce_, last, taken} \subseteq Nat
      /\ \A k \in net : k.nonce \in Nat /\ k.call \in Nat
  BY CopyFields DEF IInv, TypeOK
<1>2. /\ net' = net \ {m}
      /\ UNCHANGED <<pc, nonce_, calls, made, born, paced, now>>
      /\ \/ last' = last /\ taken' = taken
         \/ m.nonce > last /\ last' = m.nonce /\ taken' = m.call
  BY DEF Arrive, caller, run, exchange
<1>3. TypeOK' /\ NonceCounts' /\ SignedAsSent'
  BY <1>1, <1>2 DEF IInv, TypeOK, NonceCounts, SignedAsSent
<1>4. ASSUME NoncesInOrder
      PROVE  NoncesInOrder'
  BY <1>1, <1>2, <1>4 DEF NoncesInOrder
<1> QED
  BY <1>2, <1>3, <1>4 DEF IInv

LEMMA RestartStep ==
  ASSUME IInv, Restart
  PROVE  IInv'
<1>1. /\ net \subseteq Copies /\ {calls, nonce_, last, taken} \subseteq Nat
      /\ {born, made, now} \subseteq Nat /\ paced \in BOOLEAN
      /\ \A k \in net : k.nonce \in Nat /\ k.call \in Nat
  BY CopyFields DEF IInv, TypeOK
<1>2. /\ nonce_' = now /\ born' = now /\ made' = 0 /\ pc' = "idle"
      /\ paced' = (paced /\ made <= now - born)
      /\ UNCHANGED <<calls, net, last, taken, now>>
  BY DEF Restart, FirstNonce, exchange
<1>3. TypeOK' /\ NonceCounts' /\ SignedAsSent'
  BY <1>1, <1>2 DEF IInv, TypeOK, NonceCounts, SignedAsSent
<1>4. ASSUME paced /\ made <= now - born
      PROVE  NoncesInOrder'
  <2>1. NoncesInOrder /\ nonce_ <= nonce_'
    BY <1>1, <1>2, <1>4 DEF IInv, NonceCounts
  <2> QED
    BY <1>1, <1>2, <2>1 DEF NoncesInOrder
<1> QED
  BY <1>2, <1>3, <1>4 DEF IInv

LEMMA IInvStep == IInv /\ [Next]_vars => IInv'
<1> SUFFICES ASSUME IInv, [Next]_vars PROVE IInv'
  OBVIOUS
<1>1. CASE Return
  <2>1. /\ pc' = "idle"
        /\ UNCHANGED <<nonce_, calls, made, net, last, taken, born, paced, now>>
    BY <1>1 DEF Return, exchange, run
  <2> QED
    BY <2>1 DEF IInv, TypeOK, NonceCounts, NoncesInOrder, SignedAsSent
<1>2. CASE Tick
  <2>1. /\ now' = now + 1 /\ now < Horizon
        /\ UNCHANGED <<pc, nonce_, calls, made, net, last, taken, born, paced>>
    BY <1>2 DEF Tick, caller, exchange, run
  <2> QED
    BY <2>1, ExmoAssumption
       DEF IInv, TypeOK, NonceCounts, NoncesInOrder, SignedAsSent, ExmoAssumption
<1>3. CASE UNCHANGED vars
  BY <1>3 DEF vars, caller, exchange, run, IInv, TypeOK, NonceCounts,
              NoncesInOrder, SignedAsSent
<1> QED
  BY <1>1, <1>2, <1>3, CallStep, ArriveStep, RestartStep DEF Next

LEMMA Invariance == Spec => []IInv
BY IInvInit, IInvStep, PTL DEF Spec

----------------------------------------------------------------------------
(* The variables keep their types.                                         *)
THEOREM ExmoTypeCorrect == Spec => []TypeOK
BY Invariance, PTL DEF IInv

(* A run is not refused for the nonces of earlier ones (exmo_api.hpp:20    *)
(* and 25), if no run makes more calls than it lasts seconds.              *)
THEOREM NoncesAreFresh == Spec => []NextNonceIsFresh
<1>1. IInv => NextNonceIsFresh
  BY DEF IInv, TypeOK, NoncesInOrder, NextNonceIsFresh, NextNonce
<1> QED
  BY <1>1, Invariance, PTL

(* Whatever digests OpenSSL computes and whatever their length, a call     *)
(* under way is signed with the digest of the text with its own nonce.     *)
THEOREM CallsAreSigned == Spec => []SignedAsSent
BY Invariance, PTL DEF IInv

(* A call that was given up is not carried out after a later one.          *)
THEOREM CallsInOrder == Spec => CarriedOutInOrder
<1>1. IInv /\ [Next]_vars => [paced => taken < taken']_last
  <2> SUFFICES ASSUME IInv, Next, paced, last' # last
               PROVE  taken < taken'
    BY DEF vars, exchange
  <2>1. PICK m \in net : Arrive(m)
    BY DEF Next, Call, Return, Restart, Tick, exchange
  <2>2. /\ m.nonce > last /\ taken' = m.call /\ m.call \in Nat
        /\ taken \in Nat
    BY <2>1, CopyFields DEF Arrive, exchange, IInv, TypeOK
  <2> QED
    BY <2>2 DEF IInv, NoncesInOrder
<1> QED
  BY <1>1, Invariance, PTL DEF Spec, CarriedOutInOrder
===============================================================================
