SPECIFICATION Spec
CONSTANTS
  Names <- MCNames
  Pools <- MCPools
  Files <- MCFiles
  Fallback <- MCFallback
  Clients = {c1}
  KickOnNewPool = TRUE
  MaxNow = 5
  None = none
INVARIANTS
  TypeOK
  PoolsNamed
PROPERTIES
  ReloadIsAtomic
  ReloadKeepsPlayedServers
  KickOnlyForNewPool
