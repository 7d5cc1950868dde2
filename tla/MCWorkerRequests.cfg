SPECIFICATION Spec
CONSTANTS
  SizeMod <- MCSizeMod
  Fds <- OneFd
  Clients = {a, b}
  V6Clients = {b}
  AppClients = {a}
  MaxSent = 2
  MaxResponse = 1
  ZeroSend = FALSE
  SpuriousWakeups = FALSE
  TraceEnabled = FALSE
INVARIANT RequestFaithful
CHECK_DEADLOCK FALSE
