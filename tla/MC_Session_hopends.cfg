SPECIFICATION FairSpec
CONSTANTS
  Hoppers = {h1}
  Conns = {c1, c2}
  Run = run
  Shut = shut
  None = none
  NoServer = noServer
  Servers <- LoopServers
  Names <- LoopNames
  Hoppable <- LoopServers
  Fallback <- LoopFallback
  FirstChoice <- LoopServers
  ForceDefaultSrv = TRUE
  MaySignal = FALSE
  Timed = {}
  Greeted = {c1}
CHECK_DEADLOCK FALSE
PROPERTIES
  HopTerminates
