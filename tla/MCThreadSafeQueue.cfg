\* Stop, Start, Clear and the destructor against one writer and three readers.
CONSTANTS
  p1 = p1
  g1 = g1
  g2 = g2
  g3 = g3
  Putters = {p1}
  Getters = {g1, g2, g3}
  Calls = {"start", "stop", "clear", "delete"}
  MaxPut = 2
  MaxCall = 2
  NoItem = NoItem
  Free = Free
SPECIFICATION FairSpec
INVARIANTS
  TypeOK
  WakeupsSuffice
  NotAllAsleep
PROPERTIES
  Delivered
CHECK_DEADLOCK FALSE
