SPECIFICATION Spec
CONSTANTS
  c1 = c1
  c2 = c2
  Conns = {c1, c2}
  NumSources = 1
  NumSchemas = 2
  SchemasOf <- MCOneSource
  User <- MCUser
  Statements <- MCShowTables
  Asks <- MCAskTables
  NormalOf <- MCNormalOf
  TTL = 1
  MaxDelay = 1
  MaxCommands <- MCTwoEach
INVARIANT AnswersOwnDatabase
