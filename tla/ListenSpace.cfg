SPECIFICATION FairSpec
CONSTANTS
  Daemons = {d1, d2, d3}
  Clients = {c1, c2}
  Owners = {c1}
  Nobody = Nobody
  MaxUpsets = 2
CHECK_DEADLOCK FALSE
INVARIANT OneAtATime
PROPERTY EveryClientConnects
