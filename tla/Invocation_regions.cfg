SPECIFICATION Spec
CONSTANTS
  Cells = 3
  MaxRuns = 2
CONSTRAINT NothingLost
CHECK_DEADLOCK FALSE
INVARIANT PoolIsExact
INVARIANT RegionIsExact
 
PROPERTY ReleaseFreesTheRun
