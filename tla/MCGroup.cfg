CONSTANTS
  Node = {a, b, c}
  NoConn = NoConn
  MaxConn = 2
  MaxFaults = 1
SPECIFICATION FairSpec
INVARIANTS RoomsAgree
PROPERTIES ImplementsLease DeathReverts
CHECK_DEADLOCK FALSE
