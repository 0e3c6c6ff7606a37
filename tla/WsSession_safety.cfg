SPECIFICATION Spec
CONSTANTS
  MaxQuery = 3
  Cap = 5
  MaxBeats = 1
  MaxTicks = 1
INVARIANTS
  TypeOK
  AnswersOwnUntilAbandoned
  AwaitedResultHasRoom
  ClosedMeansDead
PROPERTY ImplementsContract
