SPECIFICATION Spec
CONSTANTS
  Hoppers = {h1}
  Conns = {c1, c2}
  Run = run
  Shut = shut
  None = none
  NoServer = noServer
  Servers <- ChainServers
  Names <- ChainServers
  Hoppable <- ChainServers
  Fallback <- SwapFallback
  FirstChoice <- ChainFirst
  ForceDefaultSrv = TRUE
  MaySignal = FALSE
  Timed = {}
  Greeted = {}
CHECK_DEADLOCK FALSE
INVARIANTS
  FallbackLeavesKicker
