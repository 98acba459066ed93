CONSTANTS
  Lists <- TwoLists
  Broken = {3}
  Length = 1
  Saved = 0
  Grouping = FALSE
  MaxRetries = 1
  EventSlots = 2
  MaxCommands = 2
  MaxHellos = 0
  MaxThreads = 3
SPECIFICATION FairSpec
INVARIANTS OneThread StopRemembered
PROPERTIES Responsive
CHECK_DEADLOCK FALSE
