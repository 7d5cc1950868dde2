SPECIFICATION FairSpec
CONSTANTS
  v4 = v4
  v6 = v6
  run4 = run4
  run6 = run6
  control = control
  config = config
  Fds <- FourFds
  Engines = {v4, v6}
  Threads = {run4, run6, control}
  Protocol <- PairProtocol
  EngineOf <- StopEngineOf
  Starters = {run4, run6}
  Stoppers = {control}
  Setters = {}
  Destroyable = {v4}
  Clients = {a, b}
  Listeners = {l1, l2}
  Addresses = {x}
  MaxStarts = 1
  MaxStops = 2
  MaxAbandoned = 2
INVARIANT LoopKeepsListener
PROPERTY StopTakesEffect
CHECK_DEADLOCK FALSE
