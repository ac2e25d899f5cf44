\* What must happen in the end when nobody is killed.  One slot, so that the client
\* waits for the master, which changes its flag and its level, is stopped, destroyed
\* and constructed again on a second segment.
CONSTANTS
  c1 = c1
  m1 = m1
  Clients = {c1}
  Masters = {m1}
  Capacity = 1
  MaxNof = 6
  Flags = {TRUE}
  Levels = {1}
  MaxMsg = 2
  MaxSegment = 2
  Stops = {c1, m1}
  Crashes = {}
  NoMsg = NoMsg
  Free = Free
SPECIFICATION FairSpec
INVARIANTS
  NoUnderflow
PROPERTIES
  Delivered
  AddReturns
  StopReturnsGet
  CopiesFollow
CHECK_DEADLOCK FALSE
