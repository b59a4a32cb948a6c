SPECIFICATION FairSpec
CONSTANTS
  Hoppers = {}
  Conns = {c1, c2}
  Run = run
  Shut = shut
  None = none
  NoServer = noServer
  Servers <- WideServers
  Names <- WideNames
  Hoppable <- WideHoppable
  Fallback <- WideFallback
  FirstChoice <- WideFirst
  ForceDefaultSrv = TRUE
  MaySignal = TRUE
  Timed = {c1}
  Greeted = {}
CHECK_DEADLOCK FALSE
INVARIANTS
  NilKickNeedsTimer
PROPERTIES
  JoinSettles
  KickFallbackSettles
  QuietShutdownCompletes
