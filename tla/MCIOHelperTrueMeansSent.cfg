SPECIFICATION Spec
CONSTANTS
  SizeMod <- MCSizeMod
  MaxLen = 3
  MaxFaults = 2
INVARIANT TrueMeansSent
CHECK_DEADLOCK FALSE
