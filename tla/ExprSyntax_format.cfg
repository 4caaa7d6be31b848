SPECIFICATION Spec
CONSTANT Bodies <- Calculations
INVARIANT FormatKeepsTree
CHECK_DEADLOCK FALSE
