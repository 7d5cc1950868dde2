SPECIFICATION Spec
CONSTANTS
  v4 = v4
  v6 = v6
  run4 = run4
  run6 = run6
  control = control
  config = config
  Fds <- FourFds
  Engines = {v4, v6}
  Threads = {run4, run6, control, config}
  Protocol <- PairProtocol
  EngineOf <- PairEngineOf
  Starters = {run4, run6}
  Stoppers = {control}
  Setters = {config}
  Destroyable = {v4, v6}
  Clients = {a, b}
  Listeners = {l1, l2, l3}
  Addresses = {x}
  MaxStarts = 1
  MaxStops = 2
  MaxAbandoned = 2
INVARIANTS
  TypeOK
  LeakBound
  LateClients
PROPERTY LifecycleUntilSecondStop
SYMMETRY Interchangeable
CHECK_DEADLOCK FALSE
