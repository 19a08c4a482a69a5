SPECIFICATION FairSystem
CONSTANTS
  Payments = {p1}
  Wallets = {w1}
  NoWallet = NoWallet
  Endpoints = {ep1}
  Slots = {h1}
  BatchSize = 1
  PollEnabled = TRUE
  Types = {"escrow.released"}
  Timers = {t1}
  MaxAttempts = 2
  RetryBatch = 1
  CallBound = 1
  Nothing = Nothing
INVARIANTS PostsTruthful ChangesTold
PROPERTY ReleaseTold
CHECK_DEADLOCK FALSE
