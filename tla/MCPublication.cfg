CONSTANTS
  p1 = p1  p2 = p2  p3 = p3  None = None  Old = Old
  Publisher = {p1, p2, p3}
  Replacing = {p3}
  MaximumRestores = 2
  c1 = c1  f1 = f1
  MaxGeneration = 3
  QueueLimit = 1
  SubscriberLimit = 1
  ActiveLimit = 1
  LeaseLimit = 1
  MaxVersion = 1
  MaxEpoch = 0
SPECIFICATION FairSpec
INVARIANTS NothingLost ReportIsTrue
PROPERTIES AtomicPublication Converges
CHECK_DEADLOCK FALSE
