SPECIFICATION FairSpec
CONSTANTS
  Robots = {1, 2}
  Shipped = {1}
  Claims = {2}
  General = 1
  Nobody = Nobody
  Weights = {0, 25, 100}
  Procs = {p1, p2}
  MaxSteps = 1
  MaxCalls = 1
  History = 2
  MaxBorn = 4
  MaxLag = 2
CHECK_DEADLOCK FALSE
INVARIANTS StaysInItsArchive NotItsOwnContext AnswersHaveQuestions
PROPERTY TurnsEnd
