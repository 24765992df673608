SPECIFICATION Spec
CONSTANTS
  N = 3
  MaxImports = 2
  MaxThrows = 1
CHECK_DEADLOCK FALSE
INVARIANT BodyOnce
INVARIANT DepsFirst
INVARIANT OutcomeIsEarned
INVARIANT WaitsAreExact
