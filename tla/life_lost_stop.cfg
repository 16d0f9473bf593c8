SPECIFICATION FairSpec
CONSTANTS
  NumThreads = 2
  MaxRuns = 1
  Callers = {Main}
  Main = Main
  HandlerStops = FALSE
  BindMayFail = FALSE
  StopWhen = "started"
  None = None
PROPERTIES StopReturns
CHECK_DEADLOCK FALSE
