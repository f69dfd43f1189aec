CONSTANTS
  HeaderLen = 8
  CastToVoid = TRUE
  MaxFaults = 1
SPECIFICATION FairSpec
CHECK_DEADLOCK FALSE
PROPERTIES
  ErrorsReported
