SPECIFICATION Spec
CONSTANTS
  Fds = {f1, f2}
  Conns = {c1, c2, c3, c4}
  NumPools = 1
  MaxEvents = 2
  AddFdMayFail = TRUE
  None = None
  Other = Other
SYMMETRY Symmetry
PROPERTIES RefinesService
