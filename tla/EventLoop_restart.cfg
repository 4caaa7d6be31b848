SPECIFICATION FairSpec
CONSTANTS
  Clients = {c1, c2}
  Pollers = {p1, p2}
  NoPoller = none
  MaxTokens = 0
  MaxEdges = 0
  MaxOut = 1
  DirectPolls = FALSE
PROPERTY ShutdownReturns
CHECK_DEADLOCK FALSE
