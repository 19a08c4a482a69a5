SPECIFICATION AbandonedSpec
CONSTANTS
  Payments = {p1, p2, p3}
  Wallets = {w1}
  NoWallet = NoWallet
  Slots = {h1}
  BatchSize = 2
  PollEnabled = TRUE
PROPERTY PendingSettles
CHECK_DEADLOCK FALSE
