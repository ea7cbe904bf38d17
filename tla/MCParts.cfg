CONSTANTS
  c1 = c1  c2 = c2  c3 = c3  k1 = k1  k2 = k2  k3 = k3
  Caller = {c1, c2, c3}
  Key = {k1, k2, k3}
  None = None
  MaximumFlights = 2
  r1 = r1  r2 = r2  h1 = h1  h2 = h2  Nobody = Nobody
  User = {r1, r2, h1, h2}
  Hydrator = {h1, h2}
  NaN = NaN  Unknown = Unknown  NoInteger = NoInteger  NoValue = NoValue  Null = Null  BadType = BadType
  Blank = Blank  Cut = Cut
  id1 = id1  id2 = id2  part1 = part1  part2 = part2  vec1 = vec1  vec2 = vec2
  aux1 = aux1  aux2 = aux2  short = short  long1 = long1  long2 = long2
  Id = {id1, id2}
  Long = {long1, long2}
  NewRow <- Rows
  NewValues <- Values
  Nothing = Nothing
  ChunkSize = 2
  ByteBits = 2
  MaxRowid = 3
  MaxChunk = 2
  MaxStatement = 4
  MaxFault = 1
  ViewLength = 2
  IntRange = 8
  MaxK = 4
SPECIFICATION PartsSpec
SYMMETRY Symmetry
INVARIANTS SingleFlight StopDrains NobodyIsStuck CopyIsOwn ScansAgree QueriesAreExact PlanIsCarriedOut
PROPERTIES EvidenceKept ImplementsVecTable
CHECK_DEADLOCK FALSE
