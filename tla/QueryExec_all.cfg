SPECIFICATION EitherSpec
CONSTANTS
  Target <- MCTarget
  MaxConc = 2
  MaxPerSource = 3
  Conns <- MCConns
  MaxEvents <- MCMaxEvents
  c1 = c1
  c2 = c2
INVARIANTS
  TypeOK
  NoSessionLeaks
  ClosedLeavesNothing
  FanOutBounded
  ReconnectIsFresh
  ServerTypeOK
  EventsReadable
  EndedReleases
\* The connection ends: nothing follows Close.
CHECK_DEADLOCK FALSE
PROPERTIES
  AnsweredUnlessHung
  WindsUp
