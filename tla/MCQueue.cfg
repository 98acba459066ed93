CONSTANTS
  Song = {a, b}
  NoKey = NoKey
  Block = 2
  MaxBatch = 2
  MaxId = 4
  MaxHistory = 1
  QueueLen = 3
  MaxEdits = 2
  MaxAdvances = 2
SPECIFICATION MCSpec
SYMMETRY Symmetry
INVARIANTS RaceSound IdsReserved
PROPERTIES ImplementsPlayOrder FreshKeys ReorderKeepsSong
CHECK_DEADLOCK FALSE
