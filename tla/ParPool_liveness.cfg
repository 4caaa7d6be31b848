SPECIFICATION FairSpec
CONSTANTS
  Workers = {w1}
  Roots = {r1, r2}
  MaxCalls = 2
  MaxWidth = 2
  TrackFrames = TRUE
  CanPanic = TRUE
PROPERTY EveryCallReturns
CHECK_DEADLOCK FALSE
