-------------------------------- MODULE ExmoApi --------------------------------
(***************************************************************************)
(* exmo_api: calls to a second exchange.  A call is made once: it carries  *)
(* a nonce, which starts from the clock at the moment the object is built  *)
(* and grows by one with each call, and a signature of the text with that  *)
(* nonce; a transfer that fails throws.  Nothing but the clock keeps the   *)
(* nonces of one run apart from those of the next.                         *)
(*                                                                         *)
(* The exchange, which is not part of the repository, takes a call only if *)
(* its nonce exceeds every nonce it has taken from this key.  The copy of  *)
(* a call that failed may be under way for any time, also over a restart.  *)
(***************************************************************************)
EXTENDS Signing

CONSTANTS
  Hmac,       \* for each nonce, the digest that OpenSSL computes of the text
  MaxCalls,   \* bound: calls, over all runs
  Horizon     \* bound: the clock

ASSUME ExmoAssumption ==
  /\ MaxCalls \in Nat /\ Horizon \in Nat \ {0}
  /\ Hmac \in [0 .. Horizon + MaxCalls -> Seq(Byte)]

VARIABLES
  pc,       \* "idle" or "perform"
  nonce_,
  net,      \* the calls under way: number, nonce and signature
  last,     \* the exchange: the largest nonce it has taken
  now,      \* the clock, in seconds
  calls,    \* history: the calls made, over all runs
  taken,    \* history: the number of the call that was carried out last
  born,     \* history: when this run started
  made,     \* history: the calls of this run
  paced     \* history: no run made more calls than it lasted seconds

caller == <<pc, nonce_, calls, made>>
exchange == <<last, taken>>
run == <<born, paced>>
vars == <<caller, net, exchange, run, now>>

----------------------------------------------------------------------------
FirstNonceZero(clock) == 0
FirstNonce(clock) == clock
NextNonceConstant(n) == n
NextNonce(n) == n + 1

Init ==
  /\ pc = "idle"
  /\ now = 1 /\ born = 1
  /\ nonce_ = FirstNonce(now)
  /\ net = {}
  /\ last = 0 /\ taken = 0 /\ calls = 0 /\ made = 0
  /\ paced = TRUE

(* call, up to the transfer.                                               *)
Call ==
  /\ pc = "idle"
  /\ calls < MaxCalls
  /\ pc' = "perform"
  /\ nonce_' = NextNonce(nonce_)
  /\ calls' = calls + 1
  /\ made' = made + 1
  /\ net' = net \cup {[call |-> calls', nonce |-> nonce_',
                       sign |-> HexDigest512(Collected512(Hmac[nonce_']))]}
  /\ UNCHANGED <<exchange, run, now>>

(* The call returns an answer, or throws while its copy may be under way.  *)
Return ==
  /\ pc = "perform"
  /\ pc' = "idle"
  /\ UNCHANGED <<nonce_, calls, made, net, exchange, run, now>>

Arrive(m) ==
  /\ net' = net \ {m}
  /\ \/ UNCHANGED exchange
     \/ m.nonce > last /\ last' = m.nonce /\ taken' = m.call
  /\ UNCHANGED <<caller, run, now>>

(* The process ends at any point, and an object is built in another one.   *)
Restart ==
  /\ pc' = "idle"
  /\ nonce_' = FirstNonce(now)
  /\ born' = now
  /\ made' = 0
  /\ paced' = (paced /\ made <= now - born)
  /\ UNCHANGED <<calls, net, exchange, now>>

Tick ==
  /\ now < Horizon
  /\ now' = now + 1
  /\ UNCHANGED <<caller, net, exchange, run>>

Next == Call \/ Return \/ (\E m \in net : Arrive(m)) \/ Restart \/ Tick

Spec == Init /\ [][Next]_vars

----------------------------------------------------------------------------
Copies == [call : Nat \ {0}, nonce : 0 .. Horizon + MaxCalls, sign : Seq(Digit)]

(* Types.                                                                  *)
TypeOK ==
  /\ pc \in {"idle", "perform"}
  /\ {nonce_, last, now, calls, taken, born, made} \subseteq Nat
  /\ net \subseteq Copies
  /\ paced \in BOOLEAN

(* A run is not refused for the nonces of those before it: as long as no   *)
(* run makes more calls than it lasts seconds, the next nonce is larger    *)
(* than any the exchange has taken.  About exmo_api.hpp:20 and 25.         *)
NextNonceIsFresh == paced => last < NextNonce(nonce_)

(* Calls are carried out in the order they were made, each at most once:   *)
(* a copy that was given up, by this run or an earlier one, is refused     *)
(* once a later call has been carried out.  Under the same condition.      *)
CarriedOutInOrder == [][paced => taken < taken']_last

(* A call is signed for the nonce that it carries, and its signature is    *)
(* the digest: every index into hex_chars is in range and the digest can   *)
(* be read back, for the bytes that are negative as a char too.            *)
(* About exmo_api.hpp:25-31 and hmac_sha512.hpp:31-40.                     *)
SignedAsSent == \A m \in net : ReadBack(m.sign) = Hmac[m.nonce]
================================================================================
