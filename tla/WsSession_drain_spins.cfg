SPECIFICATION FairSpec
CONSTANTS
  MaxQuery = 1
  Cap = 2
  MaxBeats = 1
  MaxTicks = 1
PROPERTY ExecReturns
