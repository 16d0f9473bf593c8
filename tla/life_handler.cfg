SPECIFICATION Spec
CONSTANTS
  NumThreads = 2
  MaxRuns = 1
  Callers = {}
  Main = Main
  HandlerStops = TRUE
  BindMayFail = FALSE
  StopWhen = "looping"
  None = None
INVARIANTS StopShutsDown
CHECK_DEADLOCK FALSE
