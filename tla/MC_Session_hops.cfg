SPECIFICATION Spec
CONSTANTS
  Hoppers = {h1, h2}
  Conns = {c1, c2}
  Run = run
  Shut = shut
  None = none
  NoServer = noServer
  Servers <- ChainServers
  Names <- ChainServers
  Hoppable <- ChainHoppable
  Fallback <- ChainFallback
  FirstChoice <- ChainFirst
  ForceDefaultSrv = TRUE
  MaySignal = FALSE
  Timed = {}
  Greeted = {}
SYMMETRY AllSymmetry
CHECK_DEADLOCK FALSE
INVARIANTS
  TypeOK
  SingleUpstream
  CurrentIsAttached
  HopCrashNeedsDeparture
  DroppedIsDetached
  NoOrphan
PROPERTIES
  PlayerMovesInOrder
