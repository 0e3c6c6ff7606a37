SPECIFICATION TextSpec
CONSTANTS
  Alphabet <- MCAlphabet
  MaxLen = 5
  LongLiteral = 1
  LongNumber = 2
INVARIANTS
  TypeOK
  StripKeepsMeaning
  ShrinkKeepsMeaning
  KeyKeepsMeaning
  ParametersInPlace
  FiltersAsLike
  MergedRows
  DataMasked
  ReportAddsUp
CHECK_DEADLOCK FALSE
