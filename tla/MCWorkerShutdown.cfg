SPECIFICATION FairSpec
CONSTANTS
  SizeMod <- MCSizeMod
  Fds <- OneFd
  Clients = {a, b}
  V6Clients = {b}
  AppClients = {a}
  MaxSent = 0
  MaxResponse = 1
  ZeroSend = TRUE
  SpuriousWakeups = TRUE
  TraceEnabled = FALSE
PROPERTIES
  PeerCloseReleases
  ShutdownDecided
CHECK_DEADLOCK FALSE
