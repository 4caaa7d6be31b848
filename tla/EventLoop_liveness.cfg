SPECIFICATION DispatcherSpec
CONSTANTS
  Clients = {c1, c2, d1}
  Dispatchers = {d1}
  NoDispatcher = none
  Pollers = {p1}
  NoPoller = none
  MaxTokens = 1
  MaxEdges = 2
  MaxOut = 1
  DirectPolls = FALSE
PROPERTIES
  ShutdownReturns
  EventsArePolled
  DispatcherStops
  ParkedTasksPolled
CHECK_DEADLOCK FALSE
