CONSTANTS
  Inputs <- MCInputs
  Lower <- MCLower
SPECIFICATION Spec
INVARIANTS ComponentsAreFound ThrowsOnMalformed
CHECK_DEADLOCK FALSE
