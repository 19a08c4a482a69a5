SPECIFICATION Spec
CONSTANTS
  Endpoints = {ep1}
  Types = {type1}
  Events = {e1, e2}
  TypeOf <- OneType
  Slots = {h1, h2, h3}
  MaxAttempts = 2
  BatchSize = 2
  Nothing = Nothing
SYMMETRY Symmetry
CONSTRAINT OneUpdateInFlight
INVARIANTS IInv Accounted
PROPERTIES NeverPostedAgain ImplementsQueue
CHECK_DEADLOCK FALSE
