\* The query is sent as a POST on /order.
SPECIFICATION Spec
CONSTANTS
  Asked <- AskedMixed
  RetryDelay = 2
  RecvWindow = 1
  MaxCalls = 1
  MaxFailures = 1
  Horizon = 2
INVARIANTS QueryIsNotAnOrder
CHECK_DEADLOCK FALSE
