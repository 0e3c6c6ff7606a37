SPECIFICATION FairSpec
CONSTANTS
  Callers = {c1, c2}
  NumSources = 2
  Schemas = {"shared", "one", "two"}
  SchemasOf <- MCSchemasOf
  MaxToken = 2
INVARIANTS
  TypeOK
  LoginOnlyWithoutToken
  RedialUsesNewToken
  MapFromOneWalk
PROPERTIES
  ImplementsDirectory
  CallsReturn
