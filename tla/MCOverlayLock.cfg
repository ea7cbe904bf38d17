SPECIFICATION FairSpec
CONSTANTS
  b1 = b1
  b2 = b2
  w1 = w1
  old = old
  None = None
  Client <- MCClient
  Waiting <- MCWaiting
  Former = old
  Retries = 1
  FaultsHappen = TRUE
INVARIANTS ClaimIsNeverStolen IInv
PROPERTIES ImplementsExclusiveLock UnknownOwnerReported
