SPECIFICATION Spec
CONSTANTS
  Threads = {t1, t2}
  Levels = {3, 6, 7}
  Interrupted = {t1}
  SignalsInside = TRUE
  None = None
INVARIANTS HandlerGoesOn
CHECK_DEADLOCK FALSE
