SPECIFICATION Spec
CONSTANTS
  Threads = {t1, t2}
  Levels = {3, 6, 7}
  Interrupted = {t1}
  SignalsInside = FALSE
  None = None
INVARIANTS OpenWhileRunning
