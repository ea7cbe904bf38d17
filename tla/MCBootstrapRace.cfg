CONSTANTS
  w1 = w1  w2 = w2  config = config  ignore = ignore  main = main  side = side
  None = None
  Writer = {w1, w2}
  Path = {config, ignore}
  Branch = {main}
  EditedPath = {}
  MaxCommit = 2
  Files <- InitFiles
  MayCancel = FALSE
  c1 = c1  f1 = f1  Nobody = Nobody
  Client = {c1}
  File = {f1}
  MaxGeneration = 1
  QueueLimit = 1
  SubscriberLimit = 1
  ActiveLimit = 1
  LeaseLimit = 1
  MaxVersion = 1
  MaxEpoch = 1
SPECIFICATION BootstrapSpec
PROPERTIES DeletesOnlyItsOwn
CHECK_DEADLOCK FALSE
