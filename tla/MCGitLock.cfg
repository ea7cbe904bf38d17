CONSTANTS
  p1 = p1  p2 = p2  t1 = t1  t2 = t2  t3 = t3  None = None
  Process <- TwoProcesses
  Thread <- MCThread
  Home <- TwoHomes
  QueueLimit = 2
  MaxToken = 2
  CloseMayStick = TRUE
SPECIFICATION Spec
SYMMETRY Symmetry
INVARIANTS MutualExclusion IInv
PROPERTIES ImplementsExclusiveLock
