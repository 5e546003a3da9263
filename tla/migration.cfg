SPECIFICATION FairSpec
CONSTANTS
  Procs = {p1, p2, p3}
  Last = 4
  Versions = {2, 4}
  Tolerant = {1, 3}
INVARIANTS TypeOK RecordsMatch ServesOwnSchema RaceHasWinner
PROPERTIES ImplementsSchema MigrateEnds Converges
