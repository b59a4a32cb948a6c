SPECIFICATION FairSpec
CONSTANTS
  Clients = {c1, c2}
  Names = {ann, bob, bad}
  BadNames = {bad}
  BannedNames = {bob}
  UserLimit = 1
  None = none
CHECK_DEADLOCK FALSE
INVARIANTS
  TypeOK
  NamesOwned
  LimitKept
  RegistersOnce
PROPERTIES
  NameFreed
