SPECIFICATION FairSpec
CONSTANTS
  Fds = {f1, f2, f3}
  Conns = {c1, c2, c3}
  NumPools = 2
  MaxEvents = 2
  AddFdMayFail = FALSE
  None = None
  Other = Other
INVARIANTS
  TypeOK Ownership
PROPERTIES NoForeignClose MonitoredStaysOpen RefinesFairService
