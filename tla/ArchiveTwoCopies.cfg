SPECIFICATION Spec
CONSTANTS
  Robots = {a1}
  Global = global
  MaxBorn = 2
  MaxClock = 0
  NoPage = NoPage
  Procs = {p1, p2}
INVARIANT RowsKeepTheirBytes
