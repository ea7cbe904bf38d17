CONSTANTS
  NaN = NaN  Unknown = Unknown  NoInteger = NoInteger
  ChunkSize = 2
  ViewLength = 2
  IntRange = 8
  MaxK = 4
SPECIFICATION Spec
INVARIANTS TrueTopK
CHECK_DEADLOCK FALSE
