SPECIFICATION FairSpec
CONSTANTS
  Agents = {r, c1}
  Root = r
  Nobody = nobody
  Locs = {x}
  MaxWaits = 2
  MaxTime = 1
  Counts = {1, 4}
  MaxAgents = 1
  MaxMacrotasks = 3
  Programs <- TwoPrograms
CHECK_DEADLOCK FALSE
INVARIANT CountedMeansOk
INVARIANT NoLostWakeup
INVARIANT WaitListSound
PROPERTY WaitReturns
