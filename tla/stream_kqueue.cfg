SPECIFICATION Spec
CONSTANTS
  SizeMod = 1000
  Numerals <- MCNumerals
  Requests <- FittingOnKqueue
  Responses <- MCResponses
  ReadSize = 28
  SendSpaces <- Whole
  None = None
INVARIANTS HalfCloseIsServed
CHECK_DEADLOCK FALSE
