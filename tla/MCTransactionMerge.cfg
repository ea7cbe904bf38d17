CONSTANTS
  w0 = w0  w1 = w1  w2 = w2  a = a  b = b  main = main  side = side  None = None
  root = root  feature = feature  squash = squash
  A = A  B = B  C = C  a1 = a1  b1 = b1  b2 = b2  c1 = c1
  Writer = {w0, w1, w2}
  Path = {a, b}
  Branch = {main, side}
  EditedPath = {}
  MaxCommit = 3
  AloneCommits = 3
  Files <- PlannedFiles
  Variants <- PublishingOnly
  MayCancel = TRUE
  MayMerge = TRUE
  Outliving = {}
SPECIFICATION AloneSpec
INVARIANTS NoCommitDuringMerge
CHECK_DEADLOCK FALSE
