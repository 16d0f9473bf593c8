SPECIFICATION Spec
CONSTANTS
  SizeMod = 1000
  Numerals <- MCNumerals
  Requests <- LowerCase
  Responses <- MCResponses
  ReadSize = 28
  SendSpaces <- Whole
  None = None
INVARIANTS AnswersWholeRequest
CHECK_DEADLOCK FALSE
