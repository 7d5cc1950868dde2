SPECIFICATION FairSpec
CONSTANTS
  SizeMod <- MCSizeMod
  Fds <- OneFd
  Clients = {a, b}
  V6Clients = {b}
  MaxAccepted = 1
  MaxSent = 3
  MaxErrors = 2
  ZeroSend = TRUE
  SpuriousWakeups = TRUE
INVARIANT EchoInOrder
PROPERTIES
  PeerCloseReleases
  EchoDelivered
  OnlyIdleSendThreadStays
CHECK_DEADLOCK FALSE
