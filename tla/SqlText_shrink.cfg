SPECIFICATION Spec
CONSTANTS
  Alphabet <- MCDashes
  MaxLen = 5
INVARIANT ForwardedEquivalent
CHECK_DEADLOCK FALSE
