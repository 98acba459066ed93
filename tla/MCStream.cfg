CONSTANTS
  Session = {1, 2}
  MaxChunk = 2
  TeeSlots = 2
  FeedSlots = 2
  SinkSlots = 1
SPECIFICATION FairSpec
INVARIANTS HeardRight Reachable
PROPERTIES Silenced
CHECK_DEADLOCK FALSE
