SPECIFICATION ProviderSpec
CONSTANTS
  Workers = {w1, w2}
  Roots = {r1}
  MaxCalls = 2
  MaxWidth = 2
  TrackFrames = FALSE
  CanPanic = FALSE
  MaxProviders = 3
  Nesting = FALSE
SYMMETRY WorkerSymmetry
INVARIANTS
  LookupReadsLiveFrames
  LookupIsLexical
CHECK_DEADLOCK FALSE
