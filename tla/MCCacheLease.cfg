CONSTANTS
  None = None  Empty = Empty
  Candidates = 2
  MaxCommand = 3  MaxUnread = 2
  KillMayFail = TRUE
SPECIFICATION FairSpec
INVARIANTS OpenIsValidated EndsClean TreeIsOwned
PROPERTIES TreeEnds
CHECK_DEADLOCK FALSE
