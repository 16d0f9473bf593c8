CONSTANTS
  Inputs <- PortZeroInputs
  Lower <- MCLower
SPECIFICATION Spec
INVARIANTS ComponentsAreFound
CHECK_DEADLOCK FALSE
