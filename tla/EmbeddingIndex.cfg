SPECIFICATION FairIndexSpec
CONSTANTS
  Rows = {r1, r2, r3}
  Chunk = 2
  MaxBuilds = 2
INVARIANTS IndexTypeOK SameGeometry
PROPERTY EveryRowIsFound
