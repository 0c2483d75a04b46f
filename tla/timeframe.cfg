\* Does the strategy use the timeframe that is configured?
SPECIFICATION Spec
CONSTANTS
  Paths <- FilesThere
  DefaultFile <- Defaults
  Interval <- IntervalIn
INVARIANT TimeframeIsConfigured
