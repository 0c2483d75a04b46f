\* Four calls over any number of runs.
SPECIFICATION Spec
CONSTANTS
  Hmac <- EveryByte
  MaxCalls = 4
  Horizon = 5
INVARIANTS NextNonceIsFresh SignedAsSent
PROPERTIES CarriedOutInOrder
