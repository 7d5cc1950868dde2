SPECIFICATION FairSpec
CONSTANTS
  SizeMod <- MCSizeMod
  Fds <- OneFd
  Clients = {a}
  V6Clients = {}
  AppClients = {}
  MaxSent = 1
  MaxResponse = 0
  ZeroSend = FALSE
  SpuriousWakeups = FALSE
  TraceEnabled = TRUE
PROPERTY WorkerQuits
CHECK_DEADLOCK FALSE
