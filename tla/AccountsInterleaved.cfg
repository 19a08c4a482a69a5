SPECIFICATION Spec
CONSTANTS
  Users = {u1, u2}
  Addresses = {a1, a2}
  Patched = {"lower", "mixed"}
  Owned = {TRUE}
  Passwords = {x, y}
  Slots = {h1, h2}
  None = None
SYMMETRY Symmetry
INVARIANTS IInv OneAccountPerAddress 
PROPERTIES PasswordsByChange AdminFieldsByAdmins
CHECK_DEADLOCK FALSE
