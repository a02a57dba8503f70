SPECIFICATION FairSpec
CONSTANTS
  w1 = w1
  l1 = l1
  s1 = s1
  Conns = {w1, l1}
  Wire <- WsLine
  Ids = {i1}
  NoId = NoId
  CanPanic = TRUE
  MaxAsk = 2
  MaxChunks = 1
CHECK_DEADLOCK FALSE
PROPERTIES UnwantedTurnsEnd EveryoneAnswered RefusedAfterPanic
