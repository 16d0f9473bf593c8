SPECIFICATION Spec
CONSTANTS
  NumThreads = 2
  MaxRuns = 2
  Callers = {Main}
  Main = Main
  HandlerStops = FALSE
  BindMayFail = FALSE
  StopWhen = "looping"
  None = None
INVARIANTS ThreadsAsAsked
