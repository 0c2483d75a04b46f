\* Commands against configuration, over every partial configuration, and what
\* two files and the options that name them make of it.
SPECIFICATION FairSpec
CONSTANTS
  Paths <- FilesThere
  DefaultFile <- Defaults
  Interval <- IntervalIn
INVARIANTS
  TypeOK
  TradesOnlyConfigured
  FinishesOnlyIfStopped
  FilesByPrecedence
PROPERTIES
  EarlyStopIsObeyed
  MisconfiguredNeverLoops
