CONSTANTS
  HeaderLen = 8
  CastToVoid = FALSE
  MaxFaults = 0
SPECIFICATION Spec
CHECK_DEADLOCK FALSE
INVARIANTS
  HeaderIntact
