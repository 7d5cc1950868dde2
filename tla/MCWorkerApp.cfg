SPECIFICATION Spec
CONSTANTS
  SizeMod <- MCSizeMod
  Fds <- OneFd
  Clients = {a, b}
  V6Clients = {b}
  AppClients = {a}
  MaxSent = 1
  MaxResponse = 1
  ZeroSend = TRUE
  SpuriousWakeups = TRUE
  TraceEnabled = FALSE
INVARIANTS
  TypeOK
  DescriptorOwnership
  ResponseReachesOwner
  DoneWorkerReleases
PROPERTY ImplementsLifecycle
CHECK_DEADLOCK FALSE
