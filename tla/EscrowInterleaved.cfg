SPECIFICATION Spec
CONSTANTS
  Payments = {p1}
  Wallets = {w1, w2}
  NoWallet = NoWallet
  Slots = {h1, h2}
  BatchSize = 1
  PollEnabled = TRUE
SYMMETRY WalletsAndSlots
INVARIANT ClaimsBacked
INVARIANT EventsTruthful
INVARIANT ConfirmerPaid
PROPERTY ImplementsLedger
PROPERTY LifecycleOrder
PROPERTY EventOnce
CHECK_DEADLOCK FALSE
