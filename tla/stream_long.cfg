SPECIFICATION FairSpec
CONSTANTS
  SizeMod = 1000
  Numerals <- MCNumerals
  Requests <- LongOnEpoll
  Responses <- MCResponses
  ReadSize = 28
  SendSpaces <- Whole
  None = None
PROPERTIES CompleteIsAnswered
CHECK_DEADLOCK FALSE
