SPECIFICATION OverlapOnOneSpec
CONSTANTS
  p1 = p1
  p2 = p2
  p3 = p3
  Payments = {p1, p2, p3}
  Users = {1, 2, 3, 4, 5}
  Merchants = {1, 2, 3, 4}
  Businesses = {1, 2, 3, 4, 5}
  UserOf <- UserOfBusiness
  Askers <- AskersOf
  Amount <- AmountOf
  Handlers = {h1, h2}
  Moments = {21, 22}
  Zone = 0
  PageLimits = {2, 3, 5}
  BucketCounts = {1, 2}
  None = None
SYMMETRY Symmetry
INVARIANTS SeriesComplete PagesComplete FundsAgree TercilesByRank
PROPERTY PastBucketsFixed
CHECK_DEADLOCK FALSE
