SPECIFICATION Spec
CONSTANTS
  SizeMod = 1000
  Numerals <- MCNumerals
  Requests <- FittingOnEpoll
  Responses <- MCResponses
  ReadSize = 28
  SendSpaces <- Partial
  None = None
INVARIANTS ResponseSentWhole
CHECK_DEADLOCK FALSE
