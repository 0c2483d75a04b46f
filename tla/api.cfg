\* Every operation, twice; the caller stops after MaxCalls calls.
SPECIFICATION FairSpec
CONSTANTS
  Asked <- AskedAll
  RetryDelay = 3
  RecvWindow = 2
  MaxCalls = 2
  MaxFailures = 3
  Horizon = 4
INVARIANTS SentAsAsked AtMostOnce ResponseIsWhole
PROPERTIES AnswerIsFinal ImplementsOrderChannel CallReturns
CHECK_DEADLOCK FALSE
