SPECIFICATION ServerFairSpec
CONSTANTS
  s4 = s4
  s6 = s6
  run4 = run4
  run6 = run6
  control = control
  Fds <- FourFds
  Engines = {s4, s6}
  Threads = {run4, run6, control}
  Protocol <- PairProtocol
  EngineOf <- PairEngineOf
  Starters = {run4, run6, control}
  Stoppers = {control}
  Setters = {}
  Destroyable = {}
  Clients = {a}
  Listeners = {l1, l2, l3}
  Addresses = {x}
  MaxStarts = 1
  MaxStops = 2
  MaxAbandoned = 2
INVARIANTS
  ServerTypeOK
  LeakBound
PROPERTIES
  ImplementsLifecycle
  StartsAgain
CHECK_DEADLOCK FALSE
