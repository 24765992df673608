SPECIFICATION Spec
CONSTANTS
  N = 3
  MaxImports = 2
  MaxThrows = 1
INVARIANT FailureRemembered
CHECK_DEADLOCK FALSE
