SPECIFICATION FairSpec
CONSTANTS
  SizeMod = 1000
  Numerals <- MCNumerals
  Requests <- BothPollers
  Responses <- MCResponses
  ReadSize = 28
  SendSpaces <- Partial
  None = None
INVARIANTS AnswersWholeRequest HandlerGetsWhatWasSent NothingUnreported
  OnlyUnfinishedIsDropped ReplyIsTheResponse
PROPERTIES CompleteIsAnswered ShutdownCloses
CHECK_DEADLOCK FALSE
