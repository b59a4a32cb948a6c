CONSTANTS
  MaxConns = 3
  MaxRequests = 3
  Channels = {a, b}
  None = None
SPECIFICATION Spec
SYMMETRY Symmetry
INVARIANTS TypeOK RejoinedAfterHop ClientIsKnown
CHECK_DEADLOCK FALSE
