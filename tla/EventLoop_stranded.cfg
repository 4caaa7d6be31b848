SPECIFICATION Spec
CONSTANTS
  Clients = {c1, c2}
  Pollers = {p1}
  NoPoller = none
  MaxTokens = 1
  MaxEdges = 1
  MaxOut = 1
  DirectPolls = FALSE
INVARIANT NoTakerStranded
CHECK_DEADLOCK FALSE
