SPECIFICATION Spec
CONSTANTS
  MaxQuery = 2
  Cap = 2
  MaxBeats = 1
  MaxTicks = 1
INVARIANT AnswersOwn
