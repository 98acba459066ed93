CONSTANTS
  Lists <- OneList
  Broken = {}
  Length = 1
  Saved = 0
  Grouping = TRUE
  MaxRetries = 1
  EventSlots = 2
  MaxCommands = 2
  MaxHellos = 1
  MaxThreads = 3
SPECIFICATION Spec
INVARIANTS OneThread
CHECK_DEADLOCK FALSE
