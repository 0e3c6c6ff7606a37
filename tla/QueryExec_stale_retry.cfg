SPECIFICATION Spec
CONSTANTS
  Target <- MCTarget
  MaxConc = 2
  MaxPerSource = 3
INVARIANT RetryUsesLiveSession
CHECK_DEADLOCK FALSE
