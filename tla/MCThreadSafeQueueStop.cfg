\* Stop against one reader.
CONSTANTS
  p1 = p1
  g1 = g1
  Putters = {p1}
  Getters = {g1}
  Calls = {"stop"}
  MaxPut = 1
  MaxCall = 1
  NoItem = NoItem
  Free = Free
SPECIFICATION FairSpec
PROPERTIES
  StopEndsGet
CHECK_DEADLOCK FALSE
