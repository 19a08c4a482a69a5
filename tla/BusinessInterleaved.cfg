SPECIFICATION Spec
CONSTANTS
  Ids = {b1, b2}
  Wallets = {w1, w2}
  Slots = {h1, h2}
  Roles = {"merchant", "admin"}
  Patches = {{"wallet"}, {"active"}}
  Logos = {FALSE}
  None = None
SYMMETRY Symmetry
INVARIANTS RowsRegistered VerifiedBacked AccountsAccounted
PROPERTIES OnlyAdminsReactivate 
CHECK_DEADLOCK FALSE
