SPECIFICATION Spec
CONSTANTS
  Promise = {p1, p2, p3, p4}
  Kinds = {"all", "allSettled", "any", "race"}
  MaxOps = 5
SYMMETRY Symmetry
CHECK_DEADLOCK FALSE
INVARIANT DecidedOnce
INVARIANT RunsOnceInOrder
INVARIANT AdoptsTheOutcome
INVARIANT CombinatorIsExact
INVARIANT UsedIsFound
