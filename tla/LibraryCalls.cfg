SPECIFICATION FairSpec
CONSTANTS
  Threads = {t1, t2}
  Nobody = Nobody
  MaxTokens = 2
  MaxDepth = 2
INVARIANTS NoAlias OneBackend PollIsFinal
PROPERTIES FreedStaysRefused EveryCallReturns
