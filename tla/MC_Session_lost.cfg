SPECIFICATION FairSpec
CONSTANTS
  Hoppers = {}
  Conns = {c1, c2}
  Run = run
  Shut = shut
  None = none
  NoServer = noServer
  Servers <- ChainServers
  Names <- ChainServers
  Hoppable <- ChainHoppable
  Fallback <- ChainFallback
  FirstChoice <- ChainFirst
  ForceDefaultSrv = TRUE
  MaySignal = FALSE
  Timed = {}
  Greeted = {}
CHECK_DEADLOCK FALSE
PROPERTIES
  LostServerFallsBack
