SPECIFICATION Spec
CONSTANTS
  Clients = {c1, c2}
  Pollers = {p1, p2}
  NoPoller = none
  MaxTokens = 2
  MaxEdges = 1
  MaxOut = 2
  DirectPolls = TRUE
SYMMETRY ThreadSymmetry
INVARIANTS
  WakeupsNotDuplicated
  NoWakeupLost
CHECK_DEADLOCK FALSE
