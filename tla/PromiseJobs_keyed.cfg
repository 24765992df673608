SPECIFICATION Spec
CONSTANTS
  Promise = {p1, p2, p3, p4}
  Kinds = {"allKeyed", "allSettledKeyed"}
  MaxOps = 3
SYMMETRY Symmetry
INVARIANT UsedIsFound
CHECK_DEADLOCK FALSE
