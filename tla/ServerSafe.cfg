SPECIFICATION Spec
CONSTANTS
  w1 = w1
  l1 = l1
  s1 = s1
  Conns = {w1, s1}
  Wire <- WsSse
  Ids = {i1, i2}
  NoId = NoId
  CanPanic = FALSE
  MaxAsk = 3
  MaxChunks = 1
CHECK_DEADLOCK FALSE
SYMMETRY SymIds
INVARIANTS FramesInOrder TurnsArePending StopsAreMeant
PROPERTIES StopIsAnsweredFirst ServesInTurn
