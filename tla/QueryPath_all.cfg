SPECIFICATION FairSpec
CONSTANTS
  c1 = c1
  c2 = c2
  Conns = {c1, c2}
  NumSources = 2
  NumSchemas = 2
  SchemasOf <- MCSchemasOf
  User <- MCUser
  Statements <- MCStatements
  Asks <- MCAsks
  NormalOf <- MCNormalOf
  TTL = 1
  MaxDelay = 1
  MaxCommands <- MCMaxCommands
INVARIANTS TypeOK AnswersRecent AnswersOwnStatement RoutedToOwner
PROPERTY QueriesAnswered
