CONSTANTS
  k1 = k1
  Clients = {k1}
  Levels = {300}
  MaxText = 2
  MaxConn = 2
  MaxSend = 1
SPECIFICATION FairSpec
INVARIANTS
  TypeOK
  LevelLast
  TextComplete
  InOrder
PROPERTIES
  ActiveFollows
  Arrives
CHECK_DEADLOCK FALSE
