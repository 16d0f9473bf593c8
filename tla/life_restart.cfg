SPECIFICATION FairSpec
CONSTANTS
  NumThreads = 2
  MaxRuns = 2
  Callers = {Main}
  Main = Main
  HandlerStops = FALSE
  BindMayFail = TRUE
  StopWhen = "looping"
  None = None
INVARIANTS StopShutsDown NoTerminate PoolsOutliveAccept
PROPERTIES StopReturns DestroyEnds
