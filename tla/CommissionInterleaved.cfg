SPECIFICATION Spec
CONSTANTS
  Payments = {p1, p2}
  Bases = {99, 150}
  Rates = {0, 10000}
  Slots = {h1, h2}
  None = None
SYMMETRY Symmetry
INVARIANTS IInv EstimateIsCharged AdminRateHolds
CHECK_DEADLOCK FALSE
