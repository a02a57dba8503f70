SPECIFICATION Spec
CONSTANTS
  Systems = {"s"}
  Users = {"u"}
  Words = {" "}
  Blanks = {" "}
  Tokens <- MCTokens
  Encode <- MCEncode
  Options <- MCOptions
  Saved <- MCSaved
  Raw <- MCRaw
  MaxTokens = 2
  Layers = 2
  Chunk = 8
  MaxMessages = 2
INVARIANTS TypeOK CacheIsFed
PROPERTY TakesWholeTurns
