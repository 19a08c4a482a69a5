SPECIFICATION FairSpec
CONSTANTS
  Qrs = {q1, q2}
  MaxRefs = 1
  MaxPayments = 2
  MaxUpdates = 1
  Slots = {h1}
  BatchSize = 2
  SigLimit = 2
  PollEnabled = TRUE
PROPERTY PaymentsRecorded
CHECK_DEADLOCK FALSE
