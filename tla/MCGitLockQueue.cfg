CONSTANTS
  p1 = p1  p2 = p2  t1 = t1  t2 = t2  t3 = t3  None = None
  Process <- OneProcess
  Thread <- MCThread
  Home <- OneHome
  QueueLimit = 2
  MaxToken = 2
  CloseMayStick = FALSE
SPECIFICATION FairSpec
PROPERTIES NoOvertaking WaiterResolves
