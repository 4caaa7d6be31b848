SPECIFICATION Spec
CONSTANTS
  Keys = {k1, k2, k3}
  Values = {v1, v2}
  None = None
  InitialCapacity = 2
  MaxCapacity = 8
  Hashes <- CollidingHashes
SYMMETRY MapSymmetry
INVARIANTS
  CountersExact
  ProbeMeetsEmpty
  KeysReachable
PROPERTY ImplementsMap
CHECK_DEADLOCK FALSE
