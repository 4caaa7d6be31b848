SPECIFICATION Spec
CONSTANTS
  Locals = {a, b}
  Database = Database
SYMMETRY LocalSymmetry
INVARIANT SequentialValues
CHECK_DEADLOCK FALSE
