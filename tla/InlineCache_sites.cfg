SPECIFICATION Spec
CONSTANTS
  Objs = {o1, o2, o3}
  Keys = {"x", "y"}
  Name = "x"
  Ways = 2
  MaxPath = 2
  MaxOps = 3
  none = none
SYMMETRY Symmetry
CHECK_DEADLOCK FALSE
INVARIANT CachedReadIsLookup
INVARIANT CachedStoreIsSet
INVARIANT EditsAreOwn
