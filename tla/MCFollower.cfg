SPECIFICATION Spec
CONSTANTS
  Lists <- OneList
  Broken = {}
  Length = 1
  Saved = 0
  Grouping = TRUE
  MaxRetries = 1
  EventSlots = 1
  MaxCommands = 1
  MaxHellos = 1
  MaxThreads = 2
INVARIANTS Controlled
CHECK_DEADLOCK FALSE
