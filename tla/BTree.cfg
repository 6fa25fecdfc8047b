CONSTANTS
  Bytes <- MCBytes
  Committed <- MCCommitted
  Room = 12
  MaxPages = 40
  MaxHeight = 6
  Values = {0, 1}
  Users = {1, 2, 3, 4, 5, 6, 7, 8}
  Movers = {2, 6}
  MaxOps = 2
SPECIFICATION Spec
INVARIANTS TypeOK TreeShape PagesFit NoCallFails CursorPathsHold CountsExact RanksAreOrdinals
PROPERTY ImplementsOrderedMap
CHECK_DEADLOCK FALSE
