CONSTANTS
  w1 = w1  w2 = w2  config = config  ignore = ignore  main = main  side = side
  None = None
  Writer = {w1, w2}
  Path = {config}
  Branch = {main}
  EditedPath = {}
  MaxCommit = 3
  Files <- OneFile
  MayCancel = TRUE
  c1 = c1  f1 = f1  Nobody = Nobody
  Client = {c1}
  File = {f1}
  MaxGeneration = 4
  QueueLimit = 2
  SubscriberLimit = 1
  ActiveLimit = 1
  LeaseLimit = 1
  MaxVersion = 1
  MaxEpoch = 1
SPECIFICATION PartsSpec
SYMMETRY Symmetry
INVARIANTS OutcomesAreTrue FailureRestores SubscribersAreServed
PROPERTIES StampsInOrder PublishesCurrentInterests
CHECK_DEADLOCK FALSE
