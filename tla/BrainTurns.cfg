SPECIFICATION FairSpec
CONSTANT HasEngine = TRUE
INVARIANTS TypeOK RunsAsSet
PROPERTY DaemonIsFound
