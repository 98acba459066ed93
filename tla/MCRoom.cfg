CONSTANTS
  Window = 5
  BestOf = 3
  MinSamples = 3
  Alpha = 4
  Theta = 7
  Delays = {0, 6}
  Scale = 8
  MaxExchanges = 8
  ChunkLen = 6
  Hard = 6
  SlewStart = 4
  SlewStop = 2
  Slew = 1
  Persistence = 3
  Cooldown = 2
  Warmup = 3
  Smooth = 4
  Freeze = 3
  Latency = 3
  Reports = {2, 5}
  Noise = 1
  Onsets <- MCOnsets
  Jolts <- MCJolts
  MaxJolts = 2
  Precision = 4
SPECIFICATION RoomSpec
INVARIANT KeepsTime
PROPERTY SinkSettles
CHECK_DEADLOCK FALSE
