SPECIFICATION BusySpec
CONSTANTS
  Callers = {c1}
  NumSources = 2
  Schemas = {"shared", "one", "two"}
  SchemasOf <- MCSchemasOf
  MaxToken = 2
PROPERTY MapBecomesComplete
