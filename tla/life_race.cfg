SPECIFICATION Spec
CONSTANTS
  NumThreads = 2
  MaxRuns = 1
  Callers = {Main, e1}
  Main = Main
  HandlerStops = TRUE
  BindMayFail = TRUE
  StopWhen = "anytime"
  None = None
INVARIANTS OneStop GoneIsQuiet
CHECK_DEADLOCK FALSE
