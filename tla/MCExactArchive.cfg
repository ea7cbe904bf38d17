CONSTANTS
  p1 = p1  p2 = p2  v1 = v1  v2 = v2  None = None
  Request = {p1, p2}
  Kind = {"doctor", "compile", "web"}
  Rev = {v1, v2}
  MaxCompiles = 2
SPECIFICATION FairSpec
INVARIANTS AnswersWhatWasAsked IInv
PROPERTIES GoodArchiveStays EveryRequestEnds
CHECK_DEADLOCK FALSE
