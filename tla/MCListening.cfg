CONSTANTS
  Song = {a, b, c}
  NoKey = NoKey
  Block = 64
  MaxBatch = 1
  MaxId = 4
  MaxHistory = 3
  None = None
  Tab = {p, q}
  LastSong = 2
  MaxHappenings = 2
SPECIFICATION MCSpec
SYMMETRY Symmetry
INVARIANTS ListsSound PlayNextKept InTune
PROPERTY NoRepeat
CHECK_DEADLOCK FALSE
