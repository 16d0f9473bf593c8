SPECIFICATION Spec
CONSTANTS
  NumThreads = 2
  MaxRuns = 1
  Callers = {e1}
  Main = Main
  HandlerStops = FALSE
  BindMayFail = FALSE
  StopWhen = "looping"
  None = None
INVARIANTS RunBlocksUntilStopped
