CONSTANTS
  Path <- MCPath
  Scanner = {t1, t2}
  MaxScans = 2
  MaxChanges = 1
  Name <- MCName
  Radix = 3
  PageSize = 2
  Saved <- MCSaved
  MaxSaves = 3
  Track = {s1, s2, s3}
  Silent = {s3}
  Worker = {w1, w2}
  MaxTurns = 3
  MetaInt = 3
  Titles <- MCTitles
  MaxRead = 4
  Sizes = {0, 1, 2, 5}
  PieceLen = 2
SPECIFICATION StoreSpec
INVARIANTS AlbumsInStep ScanExact PlaylistKept PiecesFit
PROPERTIES ScanEnds Analysed
CHECK_DEADLOCK FALSE
