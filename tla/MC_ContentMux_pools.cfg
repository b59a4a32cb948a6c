SPECIFICATION FairSpec
CONSTANTS
  Servers <- MCServers
  Pools <- MCPools
  PoolOf <- MCPoolOf
  NodeDefs <- MCNodeDefs
  MaxContent = 7
  Unknown = 2
  Ignore = 4
  None = none
CHECK_DEADLOCK FALSE
INVARIANTS
  TypeOK
  RoundTrip
  PoolsSettled
  NodesTranslated
PROPERTIES
  MuxReturns
  DecidesPoolsOnce
