SPECIFICATION ProviderSpec
CONSTANTS
  Workers = {w1, w2}
  Roots = {r1}
  MaxCalls = 2
  MaxWidth = 2
  TrackFrames = FALSE
  CanPanic = FALSE
  MaxProviders = 2
  Nesting = TRUE
SYMMETRY WorkerSymmetry
INVARIANT LookupReadsLiveFrames
CHECK_DEADLOCK FALSE
