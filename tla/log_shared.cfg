SPECIFICATION Spec
CONSTANTS
  Threads = {t1, t2, t3}
  Levels = {3, 6, 7}
  Interrupted = {t1}
  SignalsInside = FALSE
  None = None
INVARIANTS MaskFollowsLevel
PROPERTIES SyslogFollowsLevel
