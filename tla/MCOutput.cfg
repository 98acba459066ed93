SPECIFICATION Spec
CONSTANTS
  Standard <- MCStandard
  Setups <- MCSetups
  Filters = {"Flat", "Bass"}
  Packets = 2
  Chunk = 2
  Period = 2
  Room = 2
  Threshold = 2
  MaxRetries = 1
  MaxSongs = 2
  MaxUpdates = 1
INVARIANTS EqualiserFits HeardOut EveryRateTried
PROPERTY StopEnds
CHECK_DEADLOCK FALSE
