SPECIFICATION DeliveryFairSpec
CONSTANTS
  Fds = {f1, f2}
  Conns = {c1, c2, c3}
  NumPools = 2
  MaxEvents = 2
  AddFdMayFail = TRUE
  Pieces = 2
  MaxEnds = 2
  None = None
  Other = Other
INVARIANTS EveryByteHasAnEvent OwnAnswer OnlyServedCloses RefusalsAreCaused
PROPERTIES SentIsAnswered
CHECK_DEADLOCK FALSE
