SPECIFICATION Spec
CONSTANTS
  Workers = {w1, w2}
  Roots = {r1}
  MaxCalls = 3
  MaxWidth = 2
  TrackFrames = TRUE
  CanPanic = FALSE
SYMMETRY WorkerSymmetry
INVARIANTS
  TypeOK
  JoinBeforeReturn
  NoTaskTwice
  NoLostWakeup
  NoDeadlock
  ParentFrameAlive
  CurrentFrameRestored
PROPERTY ImplementsForkJoin
CHECK_DEADLOCK FALSE
