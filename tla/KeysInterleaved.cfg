SPECIFICATION Spec
CONSTANTS
  Keys = {k1, k2}
  Slots = {h1, h2}
  None = None
SYMMETRY Symmetry
INVARIANTS IInv RevokedRejected
PROPERTIES DisabledUntilAdmin
CHECK_DEADLOCK FALSE
