SPECIFICATION Spec
CONSTANTS
  Users = {u1, u2}
  Sockets = {s1, s2, s3, s4}
  None = None
SYMMETRY Symmetry
INVARIANT IInv
INVARIANT NewestCounted
CHECK_DEADLOCK FALSE
