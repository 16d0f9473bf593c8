SPECIFICATION Spec
CONSTANTS
  NumThreads = 2
  MaxRuns = 1
  Callers = {Main}
  Main = Main
  HandlerStops = FALSE
  BindMayFail = FALSE
  StopWhen = "looping"
  None = None
INVARIANTS NoAcceptOnClosed
CHECK_DEADLOCK FALSE
