SPECIFICATION FairSpec
CONSTANTS
  SizeMod <- MCSizeMod
  MaxLen = 3
  MaxFaults = 2
INVARIANTS
  TypeOK
  SendLeavesNoGap
  ResendBound
  CleanSendIsExact
  RecvIsExact
PROPERTY BrokenCallReturns
CHECK_DEADLOCK FALSE
