SPECIFICATION Spec
CONSTANTS
  SizeMod = 1000
  Numerals <- MCNumerals
  Requests <- FittingOnEpoll
  Responses <- MCResponses
  ReadSize = 28
  SendSpaces <- Whole
  None = None
INVARIANTS SendErrorOnlyCloses
CHECK_DEADLOCK FALSE
