SPECIFICATION FairSpec
CONSTANTS
  v4 = v4
  v6 = v6
  run4 = run4
  run6 = run6
  control = control
  config = config
  Fds <- FourFds
  Engines = {v6}
  Threads = {run6, control, config}
  Protocol <- SingleProtocol
  EngineOf <- SingleEngineOf
  Starters = {run6}
  Stoppers = {control}
  Setters = {}
  Destroyable = {}
  Clients = {a, b}
  Listeners = {l1, l2, l3}
  Addresses = {x}
  MaxStarts = 1
  MaxStops = 1
  MaxAbandoned = 2
PROPERTY RestartListens
CHECK_DEADLOCK FALSE
