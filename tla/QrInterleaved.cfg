SPECIFICATION Spec
CONSTANTS
  Qrs = {q1}
  MaxRefs = 3
  MaxPayments = 2
  MaxUpdates = 1
  Slots = {h1, h2}
  BatchSize = 1
  SigLimit = 2
  PollEnabled = TRUE
SYMMETRY Symmetry
CONSTRAINT TwoRefsOnceRemoved
INVARIANTS IInv FirstPaymentTold AnnouncedOnce
PROPERTIES ImplementsReceipts
CHECK_DEADLOCK FALSE
