\* Two clients fill a ring of two slots, which wraps and fills up.  The master is
\* stopped, destroyed, killed and constructed again on a second segment; a client
\* may be killed anywhere.
CONSTANTS
  c1 = c1
  c2 = c2
  m1 = m1
  Clients = {c1, c2}
  Masters = {m1}
  Capacity = 2
  MaxNof = 6
  Flags = {FALSE}
  Levels = {}
  MaxMsg = 2
  MaxSegment = 2
  Stops = {m1}
  Crashes = {c1, c2, m1}
  NoMsg = NoMsg
  Free = Free
SPECIFICATION Spec
SYMMETRY ClientSymmetry
INVARIANTS
  TypeOK
  RingConsistent
  NoStranded
PROPERTIES
  FifoSpec
CHECK_DEADLOCK FALSE
