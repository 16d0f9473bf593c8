SPECIFICATION Spec
CONSTANTS
  NumThreads = 2
  MaxRuns = 1
  Callers = {}
  Main = Main
  HandlerStops = FALSE
  BindMayFail = TRUE
  StopWhen = "looping"
  None = None
INVARIANTS IsRunningIsTrue
