SPECIFICATION Spec
CONSTANTS
  SizeMod <- MCSizeMod
  Fds <- OneFd
  Clients = {a, b}
  V6Clients = {b}
  MaxAccepted = 2
  MaxSent = 1
  MaxErrors = 1
  ZeroSend = FALSE
  SpuriousWakeups = TRUE
INVARIANTS
  TypeOK
  EchoReachesOwner
  OnlyIPV6BringsDown
PROPERTY ImplementsLifecycle
CHECK_DEADLOCK FALSE
