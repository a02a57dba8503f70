SPECIFICATION Spec
CONSTANTS
  Robots = {a1}
  Global = global
  Procs = {p1}
  MaxBorn = 2
  MaxClock = 1
  NoPage = NoPage
INVARIANTS RowsHaveFiles RowsKeepTheirBytes FoldersInStep VectorsFitRows OwnIsOwn
PROPERTY BootRepairsOwn
