\* One order of every type.
SPECIFICATION Spec
CONSTANTS
  Asked <- AskedAll
  RetryDelay = 2
  RecvWindow = 1
  MaxCalls = 1
  MaxFailures = 1
  Horizon = 2
INVARIANTS EveryOrderTypeIsSent
CHECK_DEADLOCK FALSE
