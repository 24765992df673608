SPECIFICATION FairSpec
CONSTANTS
  Jobs = {j1, j2}
  Runtimes = {r1, r2}
  NoRt = none
  MaxUses = 2
  MaxIdle = 1
  Fates = {"ok", "pollutes", "memory", "panic"}
CHECK_DEADLOCK FALSE
INVARIANT LeasesAreSound
INVARIANT ReuseIsSound
INVARIANT LiveIsExact
PROPERTY CancelledReturns
