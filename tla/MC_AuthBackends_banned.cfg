CONSTANTS
  Callers = {g1, g2}
  Names = {n1, n2}
  Passwords = {w1, w2}
  Addrs = {a1, a2}
  Backends = {"mt"}
  None = None
  Blank = Blank
SPECIFICATION Spec
PROPERTIES BannedKeptOut
SYMMETRY Symmetry
CONSTRAINT OneKind
