CONSTANTS
  MaxConns = 2
  MaxKept = 2
  AOIDs = {a, b, c}
  Names = {1}
  None = None
  Player = Player
SPECIFICATION Spec
INVARIANTS TypeOK NothingLeft
PROPERTIES MessagesReachObject InteractionReaches
SYMMETRY Symmetry
CONSTRAINTS OneKind FewObjects AimedClicks AimedMessages
CHECK_DEADLOCK FALSE
