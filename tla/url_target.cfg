CONSTANTS
  Inputs <- TargetInputs
  Lower <- MCLower
SPECIFICATION Spec
INVARIANTS PathOnlyHasPath
CHECK_DEADLOCK FALSE
